---- MODULE Spec2Model ----
(***************************************************************************)
(* KXN: an 8-bit stack virtual machine (vm.c), its SDL2 host-I/O           *)
(* dispatcher (platforms/sdl2/platform_io.c) and its assembler             *)
(* (assembler.c).  Integers keep the widths of the C code: pc, sp, bp and  *)
(* output_pos are uint16_t (mod 65536), stack and memory cells are         *)
(* uint8_t (mod 256).                                                      *)
(***************************************************************************)
EXTENDS Integers, Sequences, FiniteSets, TLC

VARIABLES
    vm,        \* vm_t: memory, pc, sp, bp, running, error
    ctx,       \* platform_io_context_t
    loc,       \* where main() of vm.c is: "loop" (inside run_vm) or "returned"
    budget,    \* number of SDL events the host may still deliver in this run
    iter,      \* what the last loop iteration did: "init", "quit", "skip", "exec"
    last,      \* the last instruction fetched, and the state it was fetched in
    lastCall,  \* the last OP_CALL executed and not yet returned from
    build,     \* what the compiler chose where C leaves the behaviour open
    exit_status, \* the value main() of vm.c returned, -1 while it has not returned
    asm,       \* the assembler's globals: labels, label_refs, output, output_pos
    src,       \* the source file from the read position on: lines with repeat counts
    aloc,      \* where main() of assembler.c is
    dl,        \* the frame of draw_line: its arguments and locals
    comp       \* the compiler: compiler_t and the statics of new_label

vars == <<vm, ctx, loc, budget, iter, last, lastCall, build, exit_status, asm, src, aloc, dl, comp>>
vmvars == <<vm, ctx, loc, budget, iter, last, lastCall, build, exit_status>>
asmvars == <<asm, src, aloc>>
toolvars == <<dl, comp>>

(* ------------------------------ vm.h ---------------------------------- *)
VM_MEMORY_SIZE == 65536
VM_STACK_TOP == 65535
VM_DISPLAY_WIDTH == 320
VM_DISPLAY_HEIGHT == 240

OP_NOP == 0
OP_HALT == 1
OP_PUSH == 2
OP_POP == 3
OP_DUP == 4
OP_SWAP == 5
OP_ADD == 6
OP_SUB == 7
OP_MUL == 8
OP_DIV == 9
OP_MOD == 10
OP_NEG == 11
OP_AND == 12
OP_OR == 13
OP_XOR == 14
OP_NOT == 15
OP_SHL == 16
OP_SHR == 17
OP_EQ == 18
OP_NEQ == 19
OP_GT == 20
OP_LT == 21
OP_GTE == 22
OP_LTE == 23
OP_LOAD == 24
OP_STORE == 25
OP_LOAD_IND == 26
OP_STORE_IND == 27
OP_JMP == 28
OP_JZ == 29
OP_JNZ == 30
OP_CALL == 31
OP_RET == 32
OP_IO == 33

VM_OK == 0
VM_ERROR_STACK_OVERFLOW == 1
VM_ERROR_STACK_UNDERFLOW == 2
VM_ERROR_INVALID_OPCODE == 3
VM_ERROR_DIVISION_BY_ZERO == 4
VM_ERROR_INVALID_ADDRESS == 5
VM_ERROR_HALT == 6
VM_ERROR_PLATFORM_IO == 7

(* --------------------------- platform_io.h ---------------------------- *)
IO_EXIT == 0
IO_PRINT_CHAR == 1
IO_READ_CHAR == 2
IO_DRAW_PIXEL == 16
IO_DRAW_LINE == 17
IO_FILL_RECT == 18
IO_REFRESH == 19
IO_POLL_KEY == 32
IO_GET_KEY == 33
IO_POLL_MOUSE == 34
IO_GET_MOUSE_X == 35
IO_GET_MOUSE_Y == 36
IO_GET_MOUSE_B == 37

PLATFORM_IO_OK == 0
PLATFORM_IO_ERROR_INVALID_OPERATION == 2

(* ------------------------- fixed-width helpers ------------------------ *)
U8(x) == x % 256
U16(x) == x % 65536

RECURSIVE BitAnd(_, _)
BitAnd(x, y) ==
    IF x = 0 \/ y = 0 THEN 0
    ELSE (x % 2) * (y % 2) + 2 * BitAnd(x \div 2, y \div 2)

RECURSIVE BitOr(_, _)
BitOr(x, y) ==
    IF x = 0 THEN y
    ELSE IF y = 0 THEN x
    ELSE (IF x % 2 = 1 \/ y % 2 = 1 THEN 1 ELSE 0) + 2 * BitOr(x \div 2, y \div 2)

RECURSIVE BitXor(_, _)
BitXor(x, y) ==
    IF x = 0 THEN y
    ELSE IF y = 0 THEN x
    ELSE ((x + y) % 2) + 2 * BitXor(x \div 2, y \div 2)

RECURSIVE Pow2(_)
Pow2(n) == IF n = 0 THEN 1 ELSE 2 * Pow2(n - 1)

(* ------------------- uint8_t memory[VM_MEMORY_SIZE] ------------------- *)
(* The 65536-byte array is kept as a background byte `base` and the       *)
(* cells that differ from it.                                             *)
MemRead(m, a) == IF a \in DOMAIN m.cells THEN m.cells[a] ELSE m.base

MemWrite(m, a, v) ==
    IF v = m.base
    THEN [m EXCEPT !.cells = [x \in (DOMAIN m.cells) \ {a} |-> m.cells[x]]]
    ELSE [m EXCEPT !.cells = (a :> v) @@ m.cells]

(* variants of vm_push, for measuring what the stack properties detect:   *)
(* one that decrements SP before it writes, one that is full one slot     *)
(* early                                                                  *)
vm_push_PreDecrement(v, value) ==
    IF v.sp = 0
    THEN [v EXCEPT !.error = VM_ERROR_STACK_OVERFLOW]
    ELSE [v EXCEPT !.memory = MemWrite(v.memory, U16(v.sp - 1), U8(value)),
                   !.sp = U16(v.sp - 1)]

vm_push_FullAtOne(v, value) ==
    IF v.sp <= 1
    THEN [v EXCEPT !.error = VM_ERROR_STACK_OVERFLOW]
    ELSE [v EXCEPT !.memory = MemWrite(v.memory, v.sp, U8(value)),
                   !.sp = U16(v.sp - 1)]

(* ------------------------------- vm.c --------------------------------- *)
vm_push(v, value) ==
    IF v.sp = 0
    THEN [v EXCEPT !.error = VM_ERROR_STACK_OVERFLOW]
    ELSE [v EXCEPT !.memory = MemWrite(v.memory, v.sp, value),
                   !.sp = U16(v.sp - 1)]

(* variant: the stack is taken for empty one byte early *)
vm_pop_EmptyAtOne(v) ==
    IF v.sp >= VM_STACK_TOP - 1
    THEN [vm |-> [v EXCEPT !.error = VM_ERROR_STACK_UNDERFLOW], val |-> 0]
    ELSE [vm |-> [v EXCEPT !.sp = U16(v.sp + 1)],
          val |-> MemRead(v.memory, U16(v.sp + 1))]
(* vm_pop returns the popped byte (.val) and the machine after it (.vm) *)
(* variant: reads the top byte without releasing it *)
vm_pop_KeepsSP(v) ==
    IF v.sp >= VM_STACK_TOP
    THEN [vm |-> [v EXCEPT !.error = VM_ERROR_STACK_UNDERFLOW], val |-> 0]
    ELSE [vm |-> v, val |-> MemRead(v.memory, U16(v.sp + 1))]
vm_pop(v) ==
    IF v.sp >= VM_STACK_TOP
    THEN [vm |-> [v EXCEPT !.error = VM_ERROR_STACK_UNDERFLOW], val |-> 0]
    ELSE [vm |-> [v EXCEPT !.sp = U16(v.sp + 1)],
          val |-> MemRead(v.memory, U16(v.sp + 1))]

vm_read16(v, addr) ==
    IF addr >= VM_MEMORY_SIZE - 1
    THEN [vm |-> [v EXCEPT !.error = VM_ERROR_INVALID_ADDRESS], val |-> 0]
    ELSE [vm |-> v,
          val |-> MemRead(v.memory, addr) + 256 * MemRead(v.memory, addr + 1)]

init_vm ==
    [memory |-> [base |-> 0, cells |-> <<>>],
     pc |-> 0, sp |-> VM_STACK_TOP, bp |-> VM_STACK_TOP,
     running |-> TRUE, error |-> VM_OK]

(* load_program: fread of the image file over the zeroed memory *)
load_program(v, image) == [v EXCEPT !.memory = image]

(* ------------------- platforms/sdl2/platform_io.c --------------------- *)
(* platform_io_init: the context after memset 0 and the cleared pixels.   *)
(* pixels holds the framebuffer cells that were written (index -> ARGB).  *)
platform_io_init ==
    [pixels |-> <<>>, last_key |-> 0, key_available |-> FALSE,
     mouse_x |-> 0, mouse_y |-> 0, mouse_buttons |-> 0,
     mouse_event |-> FALSE, waiting_for_input |-> FALSE]

(* 0xFF000000 | (color << 16) | (color << 8) | color, kept as the four    *)
(* bytes <<A, R, G, B>> of the 32-bit pixel                               *)
PixelColor(color) == <<255, color, color, color>>

SetPixels(pix, S, color) ==
    [i \in (DOMAIN pix) \cup S |-> IF i \in S THEN color ELSE pix[i]]

Abs(x) == IF x < 0 THEN -x ELSE x

(* variant: the loop of draw_line without the bounds test *)
RECURSIVE draw_line_loop_Unclipped(_, _, _, _, _, _, _, _, _)
draw_line_loop_Unclipped(x0, y0, x1, y1, dx, dy, sx, sy, err) ==
    LET here == {y0 * VM_DISPLAY_WIDTH + x0}
        e2 == 2 * err
        stepx == e2 > -dy
        stepy == e2 < dx
        err1 == IF stepx THEN err - dy ELSE err
        err2 == IF stepy THEN err1 + dx ELSE err1
    IN  IF x0 = x1 /\ y0 = y1 THEN here
        ELSE here \cup draw_line_loop_Unclipped(IF stepx THEN x0 + sx ELSE x0,
                                                IF stepy THEN y0 + sy ELSE y0,
                                                x1, y1, dx, dy, sx, sy, err2)

(* the loop of draw_line: the set of framebuffer indexes it writes *)
RECURSIVE draw_line_loop(_, _, _, _, _, _, _, _, _)
draw_line_loop(x0, y0, x1, y1, dx, dy, sx, sy, err) ==
    LET here == IF x0 >= 0 /\ x0 < VM_DISPLAY_WIDTH /\ y0 >= 0 /\ y0 < VM_DISPLAY_HEIGHT
                THEN {y0 * VM_DISPLAY_WIDTH + x0} ELSE {}
        e2 == 2 * err
        stepx == e2 > -dy
        stepy == e2 < dx
        err1 == IF stepx THEN err - dy ELSE err
        err2 == IF stepy THEN err1 + dx ELSE err1
    IN  IF x0 = x1 /\ y0 = y1 THEN here
        ELSE here \cup draw_line_loop(IF stepx THEN x0 + sx ELSE x0,
                                      IF stepy THEN y0 + sy ELSE y0,
                                      x1, y1, dx, dy, sx, sy, err2)

draw_line(c, x0, y0, x1, y1, color) ==
    LET dx == Abs(x1 - x0)
        dy == Abs(y1 - y0)
        sx == IF x0 < x1 THEN 1 ELSE -1
        sy == IF y0 < y1 THEN 1 ELSE -1
    IN  [c EXCEPT !.pixels =
            SetPixels(c.pixels, draw_line_loop(x0, y0, x1, y1, dx, dy, sx, sy, dx - dy), color)]

(* ------------------------- compiler.c (labels) ------------------------ *)
(* A label is <<prefix, number>>, printed as prefix and number ("L3",    *)
(* "IF_ELSE_4"); an output line is an operation and a label.  The token  *)
(* stream is kept as parsed statements [kind, body, other]: "expr", a    *)
(* "while" with its block, an "if" with its block and, for "ifelse",     *)
(* the block after else.  labels and current_label_slot are the statics  *)
(* of new_label; loops is history: for every while statement parsed, the *)
(* two labels new_label made for it and the output lines where it        *)
(* emitted its start label, JZ, JMP and end label                        *)
NoLabel == <<"", 0>>
LabelSlots == 10

NoComp ==
    [at |-> "none", tokens |-> <<>>, output |-> <<>>, label_counter |-> 0,
     labels |-> [i \in 0 .. (LabelSlots - 1) |-> NoLabel], current_label_slot |-> 0,
     loops |-> <<>>]

emit(c, op, label) == [c EXCEPT !.output = Append(@, [op |-> op, label |-> label])]

emit_label(c, label) == emit(c, "label", label)

(* new_label returns a pointer (.ptr, the slot) into its static buffers *)
new_label(c) ==
    [comp |-> [c EXCEPT !.labels[c.current_label_slot] = <<"L", c.label_counter>>,
                        !.label_counter = @ + 1,
                        !.current_label_slot = (@ + 1) % LabelSlots],
     ptr |-> c.current_label_slot]

(* an expression: the code of a literal *)
parse_expression(c) == emit(c, "PUSH", NoLabel)

RECURSIVE parse_statement(_, _)
RECURSIVE parse_block(_, _)
parse_block(c, stmts) ==
    IF stmts = <<>> THEN c ELSE parse_block(parse_statement(c, Head(stmts)), Tail(stmts))

parse_if_statement(c, stmt) ==
    LET c1 == parse_expression(c)
        else_label == <<"IF_ELSE_", c1.label_counter>>
        end_label == <<"IF_END_", c1.label_counter>>
        c2 == emit([c1 EXCEPT !.label_counter = @ + 2], "JZ", else_label)
        c3 == parse_block(c2, stmt.body)
    IN  IF stmt.kind = "ifelse"
        THEN emit_label(parse_block(emit_label(emit(c3, "JMP", end_label), else_label),
                                    stmt.other),
                        end_label)
        ELSE emit_label(c3, else_label)

parse_while_statement(c, stmt) ==
    LET s == new_label(c)
        e == new_label(s.comp)
        loop_start == s.ptr
        loop_end == e.ptr
        c1 == emit_label(e.comp, e.comp.labels[loop_start])
        c2 == parse_expression(c1)
        c3 == emit(c2, "JZ", c2.labels[loop_end])
        c4 == parse_block(c3, stmt.body)
        c5 == emit(c4, "JMP", c4.labels[loop_start])
        c6 == emit_label(c5, c5.labels[loop_end])
    IN  [c6 EXCEPT !.loops =
            Append(@, [start |-> s.comp.labels[loop_start],
                       end |-> e.comp.labels[loop_end],
                       lines |-> <<Len(e.comp.output) + 1, Len(c2.output) + 1,
                                   Len(c4.output) + 1, Len(c5.output) + 1>>])]

parse_statement(c, stmt) ==
    CASE stmt.kind = "while" -> parse_while_statement(c, stmt)
      [] stmt.kind \in {"if", "ifelse"} -> parse_if_statement(c, stmt)
      [] stmt.kind = "expr" -> parse_expression(c)

(* draw_line one iteration at a time.  The frame holds the arguments and  *)
(* locals of a call; at is "none" outside a call, "loop" at the head of   *)
(* `while (true)` and "done" after the break; ax, ay keep the first       *)
(* end point and steps counts the iterations                              *)
NoLine ==
    [at |-> "none", x0 |-> 0, y0 |-> 0, x1 |-> 0, y1 |-> 0, dx |-> 0, dy |-> 0,
     sx |-> 0, sy |-> 0, err |-> 0, color |-> 0, ax |-> 0, ay |-> 0, steps |-> 0]

(* variant: both directions are taken as increasing *)
draw_line_enter_ForwardOnly(x0, y0, x1, y1, color) ==
    [at |-> "loop", x0 |-> x0, y0 |-> y0, x1 |-> x1, y1 |-> y1,
     dx |-> Abs(x1 - x0), dy |-> Abs(y1 - y0), sx |-> 1, sy |-> 1,
     err |-> Abs(x1 - x0) - Abs(y1 - y0), color |-> color,
     ax |-> x0, ay |-> y0, steps |-> 0]

(* the declarations of draw_line *)
draw_line_enter(x0, y0, x1, y1, color) ==
    [at |-> "loop", x0 |-> x0, y0 |-> y0, x1 |-> x1, y1 |-> y1,
     dx |-> Abs(x1 - x0), dy |-> Abs(y1 - y0),
     sx |-> IF x0 < x1 THEN 1 ELSE -1, sy |-> IF y0 < y1 THEN 1 ELSE -1,
     err |-> Abs(x1 - x0) - Abs(y1 - y0), color |-> color,
     ax |-> x0, ay |-> y0, steps |-> 0]

(* the pixel an iteration writes, none when the point is off the display *)
draw_line_pixel(f) ==
    IF f.x0 >= 0 /\ f.x0 < VM_DISPLAY_WIDTH /\ f.y0 >= 0 /\ f.y0 < VM_DISPLAY_HEIGHT
    THEN {f.y0 * VM_DISPLAY_WIDTH + f.x0} ELSE {}

(* the rest of an iteration: the break, or the update of err, x0 and y0 *)
draw_line_iterate(f) ==
    LET e2 == 2 * f.err
        stepx == e2 > -f.dy
        stepy == e2 < f.dx
        err1 == IF stepx THEN f.err - f.dy ELSE f.err
    IN  IF f.x0 = f.x1 /\ f.y0 = f.y1
        THEN [f EXCEPT !.at = "done", !.steps = @ + 1]
        ELSE [f EXCEPT !.err = IF stepy THEN err1 + f.dx ELSE err1,
                       !.x0 = IF stepx THEN @ + f.sx ELSE @,
                       !.y0 = IF stepy THEN @ + f.sy ELSE @,
                       !.steps = @ + 1]
(* pops n bytes in order: .vals[1] is the first byte popped *)
RECURSIVE PopN(_, _)
PopN(v, n) ==
    IF n = 0 THEN [vm |-> v, vals |-> <<>>]
    ELSE LET p == vm_pop(v)
             r == PopN(p.vm, n - 1)
         IN  [vm |-> r.vm, vals |-> <<p.val>> \o r.vals]

(* variant: the key stays available after it was read *)
IoGetKey_KeepsAvailable(v, c) ==
    [vm |-> vm_push(v, c.last_key), ctx |-> c, ret |-> PLATFORM_IO_OK]

(* IO_GET_KEY: vm_push(vm, ctx->last_key); ctx->key_available = false *)
IoGetKey(v, c) ==
    [vm |-> vm_push(v, c.last_key),
     ctx |-> [c EXCEPT !.key_available = FALSE], ret |-> PLATFORM_IO_OK]

handle_platform_io(v, c, io_id) ==
    CASE io_id = IO_EXIT ->
           [vm |-> [v EXCEPT !.running = FALSE], ctx |-> c, ret |-> PLATFORM_IO_OK]
      [] io_id = IO_PRINT_CHAR ->
           [vm |-> vm_pop(v).vm, ctx |-> c, ret |-> PLATFORM_IO_OK]
      [] io_id = IO_READ_CHAR ->
           IF ~c.waiting_for_input
           THEN [vm |-> [v EXCEPT !.pc = U16(v.pc - 1)],
                 ctx |-> [c EXCEPT !.waiting_for_input = TRUE],
                 ret |-> PLATFORM_IO_OK]
           ELSE IF c.key_available
           THEN [vm |-> vm_push(v, c.last_key),
                 ctx |-> [c EXCEPT !.waiting_for_input = FALSE, !.key_available = FALSE],
                 ret |-> PLATFORM_IO_OK]
           ELSE [vm |-> v, ctx |-> c, ret |-> PLATFORM_IO_OK]
      [] io_id = IO_DRAW_PIXEL ->
           LET p == PopN(v, 3)
               color == p.vals[1]
               y == p.vals[2]
               x == p.vals[3]
           IN  [vm |-> p.vm,
                ctx |-> IF x < VM_DISPLAY_WIDTH /\ y < VM_DISPLAY_HEIGHT
                        THEN [c EXCEPT !.pixels =
                                SetPixels(c.pixels, {y * VM_DISPLAY_WIDTH + x}, PixelColor(color))]
                        ELSE c,
                ret |-> PLATFORM_IO_OK]
      [] io_id = IO_DRAW_LINE ->
           LET p == PopN(v, 5)
               color == p.vals[1]
               y2 == p.vals[2]
               x2 == p.vals[3]
               y1 == p.vals[4]
               x1 == p.vals[5]
           IN  [vm |-> p.vm,
                ctx |-> draw_line(c, x1, y1, x2, y2, PixelColor(color)),
                ret |-> PLATFORM_IO_OK]
      [] io_id = IO_FILL_RECT ->
           LET p == PopN(v, 5)
               color == p.vals[1]
               h == p.vals[2]
               w == p.vals[3]
               y == p.vals[4]
               x == p.vals[5]
               S == {py * VM_DISPLAY_WIDTH + px :
                        py \in {q \in y .. (y + h - 1) : q < VM_DISPLAY_HEIGHT},
                        px \in {q \in x .. (x + w - 1) : q < VM_DISPLAY_WIDTH}}
           IN  [vm |-> p.vm,
                ctx |-> [c EXCEPT !.pixels = SetPixels(c.pixels, S, PixelColor(color))],
                ret |-> PLATFORM_IO_OK]
      [] io_id = IO_REFRESH ->
           [vm |-> v, ctx |-> c, ret |-> PLATFORM_IO_OK]
      [] io_id = IO_POLL_KEY ->
           [vm |-> vm_push(v, IF c.key_available THEN 1 ELSE 0), ctx |-> c,
            ret |-> PLATFORM_IO_OK]
      [] io_id = IO_GET_KEY -> IoGetKey(v, c)
      [] io_id = IO_POLL_MOUSE ->
           [vm |-> vm_push(v, IF c.mouse_event THEN 1 ELSE 0), ctx |-> c,
            ret |-> PLATFORM_IO_OK]
      [] io_id = IO_GET_MOUSE_X ->
           [vm |-> vm_push(vm_push(v, c.mouse_x % 256), (c.mouse_x \div 256) % 256),
            ctx |-> c, ret |-> PLATFORM_IO_OK]
      [] io_id = IO_GET_MOUSE_Y ->
           [vm |-> vm_push(vm_push(v, c.mouse_y % 256), (c.mouse_y \div 256) % 256),
            ctx |-> c, ret |-> PLATFORM_IO_OK]
      [] io_id = IO_GET_MOUSE_B ->
           [vm |-> vm_push(v, c.mouse_buttons),
            ctx |-> [c EXCEPT !.mouse_event = FALSE], ret |-> PLATFORM_IO_OK]
      [] OTHER ->
           [vm |-> v, ctx |-> c, ret |-> PLATFORM_IO_ERROR_INVALID_OPERATION]

(* One SDL event: [type, sym, x, y, buttons] with type "quit", "key" (sym  *)
(* is the keycode) or "mouse" (x, y in window coordinates).               *)
(* platform_io_process_events drains the polled events in order; .ok is   *)
(* its return value.                                                      *)
RECURSIVE platform_io_process_events(_, _)
platform_io_process_events(c, polled) ==
    IF polled = <<>> THEN [ctx |-> c, ok |-> TRUE]
    ELSE LET e == Head(polled)
         IN  CASE e.type = "quit" -> [ctx |-> c, ok |-> FALSE]
               [] e.type = "key" ->
                    platform_io_process_events(
                        [c EXCEPT !.last_key = e.sym % 256, !.key_available = TRUE],
                        Tail(polled))
               [] e.type = "mouse" ->
                    platform_io_process_events(
                        [c EXCEPT !.mouse_x = e.x \div 2, !.mouse_y = e.y \div 2,
                                  !.mouse_buttons = e.buttons % 256,
                                  !.mouse_event = TRUE],
                        Tail(polled))

(* variant: reports waiting while a key is available *)
platform_io_is_waiting_for_input_KeyReady(c) == c.waiting_for_input /\ c.key_available

(* waiting_for_input && !key_available *)
platform_io_is_waiting_for_input(c) == c.waiting_for_input /\ ~c.key_available

(* --------------------------- run_vm (vm.c) ---------------------------- *)
Add8(a, b) == U8(a + b)
Sub8(a, b) == U8(a - b)
Mul8(a, b) == U8(a * b)
Neg8(a) == U8(0 - a)
Not8(a) == U8(-1 - a)
Eq8(a, b) == IF a = b THEN 1 ELSE 0
Neq8(a, b) == IF a # b THEN 1 ELSE 0
Gt8(a, b) == IF a > b THEN 1 ELSE 0
Lt8_Swapped(a, b) == IF b < a THEN 1 ELSE 0
Lt8(a, b) == IF a < b THEN 1 ELSE 0
Gte8(a, b) == IF a >= b THEN 1 ELSE 0
Lte8(a, b) == IF a <= b THEN 1 ELSE 0

(* the low byte of a << n and of a >> n on the promoted int for a count   *)
(* n in 0..31; for n in 8..31 the low 8 bits of a * 2^n are zero, and     *)
(* a < 256 leaves nothing after a right shift by 8 or more                *)
ShlLow(a, n) == IF n < 8 THEN U8(a * Pow2(n)) ELSE 0
ShrLow(a, n) == IF n < 8 THEN U8(a \div Pow2(n)) ELSE 0

(* a << b and a >> b on the promoted int: a shift count of 32 or more is  *)
(* undefined; the build decides ("x86": the count is taken mod 32,        *)
(* "arm": the result is 0).                                               *)
Shl8(a, b, bld) ==
    IF b < 32 THEN ShlLow(a, b)
    ELSE IF bld.shift = "x86" THEN ShlLow(a, b % 32) ELSE 0

Shr8(a, b, bld) ==
    IF b < 32 THEN ShrLow(a, b)
    ELSE IF bld.shift = "x86" THEN ShrLow(a, b % 32) ELSE 0

(* uint16_t addr = vm_pop(vm) | (vm_pop(vm) << 8): the order in which the *)
(* two calls are evaluated is unspecified; the build decides.             *)
PopAddr(v, bld) ==
    LET p1 == vm_pop(v)
        p2 == vm_pop(p1.vm)
    IN  IF bld.argorder = "lr"
        THEN [vm |-> p2.vm, val |-> p1.val + 256 * p2.val]
        ELSE [vm |-> p2.vm, val |-> p2.val + 256 * p1.val]

Div8(a, b) == a \div b
Mod8(a, b) == a % b

(* the value the case of `opcode` pushes for the operands a and b (a was  *)
(* pushed first); one-operand cases ignore b                              *)
Alu(opcode, a, b, bld) ==
    CASE opcode = OP_ADD -> Add8(a, b)
      [] opcode = OP_SUB -> Sub8(a, b)
      [] opcode = OP_MUL -> Mul8(a, b)
      [] opcode = OP_DIV -> Div8(a, b)
      [] opcode = OP_MOD -> Mod8(a, b)
      [] opcode = OP_NEG -> Neg8(a)
      [] opcode = OP_AND -> BitAnd(a, b)
      [] opcode = OP_OR -> BitOr(a, b)
      [] opcode = OP_XOR -> BitXor(a, b)
      [] opcode = OP_NOT -> Not8(a)
      [] opcode = OP_SHL -> Shl8(a, b, bld)
      [] opcode = OP_SHR -> Shr8(a, b, bld)
      [] opcode = OP_EQ -> Eq8(a, b)
      [] opcode = OP_NEQ -> Neq8(a, b)
      [] opcode = OP_GT -> Gt8(a, b)
      [] opcode = OP_LT -> Lt8(a, b)
      [] opcode = OP_GTE -> Gte8(a, b)
      [] opcode = OP_LTE -> Lte8(a, b)

(* a variant of the binary cases that takes the top of stack as the left  *)
(* operand                                                                *)
BinOp_TopIsLeft(v, opcode, bld) ==
    LET pb == vm_pop(v)
        pa == vm_pop(pb.vm)
    IN  vm_push(pa.vm, Alu(opcode, pb.val, pa.val, bld))

(* binary cases: b = vm_pop, a = vm_pop, vm_push(a op b) *)
BinOp(v, opcode, bld) ==
    LET pb == vm_pop(v)
        pa == vm_pop(pb.vm)
    IN  vm_push(pa.vm, Alu(opcode, pa.val, pb.val, bld))

(* OP_NEG, OP_NOT: a = vm_pop, vm_push(op a) *)
UnOp(v, opcode, bld) ==
    LET pa == vm_pop(v)
    IN  vm_push(pa.vm, Alu(opcode, pa.val, 0, bld))

(* a variant of OP_DIV, OP_MOD that pushes 0 when the divisor is zero *)
DivMod_PushesZero(v, opcode, bld) ==
    LET pb == vm_pop(v)
        pa == vm_pop(pb.vm)
    IN  IF pb.val = 0
        THEN vm_push([pa.vm EXCEPT !.error = VM_ERROR_DIVISION_BY_ZERO], 0)
        ELSE vm_push(pa.vm, Alu(opcode, pa.val, pb.val, bld))

(* OP_DIV, OP_MOD *)
DivMod(v, opcode, bld) ==
    LET pb == vm_pop(v)
        pa == vm_pop(pb.vm)
    IN  IF pb.val = 0
        THEN [pa.vm EXCEPT !.error = VM_ERROR_DIVISION_BY_ZERO]
        ELSE vm_push(pa.vm, Alu(opcode, pa.val, pb.val, bld))

(* variant: the address is checked as if two bytes were read from it *)
OpLoad_WordCheck(v) ==
    LET r == vm_read16(v, v.pc)
        v1 == [r.vm EXCEPT !.pc = U16(v.pc + 2)]
    IN  IF r.val < VM_MEMORY_SIZE - 1
        THEN vm_push(v1, MemRead(v1.memory, r.val))
        ELSE [v1 EXCEPT !.error = VM_ERROR_INVALID_ADDRESS]
OpLoad(v) ==
    LET r == vm_read16(v, v.pc)
        v1 == [r.vm EXCEPT !.pc = U16(v.pc + 2)]
    IN  IF r.val < VM_MEMORY_SIZE
        THEN vm_push(v1, MemRead(v1.memory, r.val))
        ELSE [v1 EXCEPT !.error = VM_ERROR_INVALID_ADDRESS]

OpStore(v) ==
    LET r == vm_read16(v, v.pc)
        v1 == [r.vm EXCEPT !.pc = U16(v.pc + 2)]
        p == vm_pop(v1)
    IN  IF r.val < VM_MEMORY_SIZE
        THEN [p.vm EXCEPT !.memory = MemWrite(p.vm.memory, r.val, p.val)]
        ELSE [p.vm EXCEPT !.error = VM_ERROR_INVALID_ADDRESS]

OpLoadInd(v, bld) ==
    LET a == PopAddr(v, bld)
    IN  IF a.val < VM_MEMORY_SIZE
        THEN vm_push(a.vm, MemRead(a.vm.memory, a.val))
        ELSE [a.vm EXCEPT !.error = VM_ERROR_INVALID_ADDRESS]

OpStoreInd(v, bld) ==
    LET a == PopAddr(v, bld)
        p == vm_pop(a.vm)
    IN  IF a.val < VM_MEMORY_SIZE
        THEN [p.vm EXCEPT !.memory = MemWrite(p.vm.memory, a.val, p.val)]
        ELSE [p.vm EXCEPT !.error = VM_ERROR_INVALID_ADDRESS]

OpJmp(v) ==
    LET r == vm_read16(v, v.pc)
    IN  [r.vm EXCEPT !.pc = r.val]

(* variant: the tested byte stays on the stack when the jump is not taken *)
OpJz_KeepsWhenNotTaken(v) ==
    LET r == vm_read16(v, v.pc)
        v1 == [r.vm EXCEPT !.pc = U16(v.pc + 2)]
        p == vm_pop(v1)
    IN  IF p.val = 0 THEN [p.vm EXCEPT !.pc = r.val] ELSE v1

OpJz(v) ==
    LET r == vm_read16(v, v.pc)
        v1 == [r.vm EXCEPT !.pc = U16(v.pc + 2)]
        p == vm_pop(v1)
    IN  IF p.val = 0 THEN [p.vm EXCEPT !.pc = r.val] ELSE p.vm

OpJnz(v) ==
    LET r == vm_read16(v, v.pc)
        v1 == [r.vm EXCEPT !.pc = U16(v.pc + 2)]
        p == vm_pop(v1)
    IN  IF p.val # 0 THEN [p.vm EXCEPT !.pc = r.val] ELSE p.vm

(* variant: pushes the high byte of the return address first *)
OpCall_HighFirst(v) ==
    LET r == vm_read16(v, v.pc)
        v1 == [r.vm EXCEPT !.pc = U16(v.pc + 2)]
        v2 == vm_push(v1, (v1.pc \div 256) % 256)
        v3 == vm_push(v2, v1.pc % 256)
    IN  [v3 EXCEPT !.pc = r.val]
OpCall(v) ==
    LET r == vm_read16(v, v.pc)
        v1 == [r.vm EXCEPT !.pc = U16(v.pc + 2)]
        v2 == vm_push(v1, v1.pc % 256)
        v3 == vm_push(v2, (v1.pc \div 256) % 256)
    IN  [v3 EXCEPT !.pc = r.val]

(* a variant of RET that takes the first byte popped as the low byte *)
OpRet_LowFirst(v) ==
    LET p1 == vm_pop(v)
        p2 == vm_pop(p1.vm)
    IN  [p2.vm EXCEPT !.pc = BitOr(p2.val * 256, p1.val)]

OpRet(v) ==
    LET p1 == vm_pop(v)
        p2 == vm_pop(p1.vm)
    IN  [p2.vm EXCEPT !.pc = BitOr(p1.val * 256, p2.val)]

(* variant: every host error is reported as HALT *)
OpIo_ErrorIsHalt(v, c) ==
    LET io_id == MemRead(v.memory, v.pc)
        v1 == [v EXCEPT !.pc = U16(v.pc + 1)]
        r == handle_platform_io(v1, c, io_id)
    IN  [vm |-> IF r.ret # PLATFORM_IO_OK
                THEN [r.vm EXCEPT !.error = VM_ERROR_HALT]
                ELSE r.vm,
         ctx |-> r.ctx]

OpIo(v, c) ==
    LET io_id == MemRead(v.memory, v.pc)
        v1 == [v EXCEPT !.pc = U16(v.pc + 1)]
        r == handle_platform_io(v1, c, io_id)
    IN  [vm |-> IF r.ret # PLATFORM_IO_OK
                THEN IF io_id = IO_EXIT
                     THEN [r.vm EXCEPT !.error = VM_ERROR_HALT]
                     ELSE [r.vm EXCEPT !.error = VM_ERROR_PLATFORM_IO]
                ELSE r.vm,
         ctx |-> r.ctx]

OpDup(v) ==
    LET p == vm_pop(v)
    IN  vm_push(vm_push(p.vm, p.val), p.val)

(* variant: the two bytes are pushed back in the order they had *)
OpSwap_PutsBack(v) ==
    LET pa == vm_pop(v)
        pb == vm_pop(pa.vm)
    IN  vm_push(vm_push(pb.vm, pb.val), pa.val)

OpSwap(v) ==
    LET pa == vm_pop(v)
        pb == vm_pop(pa.vm)
    IN  vm_push(vm_push(pb.vm, pa.val), pb.val)

OpPush(v) ==
    vm_push([v EXCEPT !.pc = U16(v.pc + 1)], MemRead(v.memory, v.pc))

(* the switch of run_vm, entered after the opcode fetch (v.pc is already  *)
(* past the opcode byte)                                                 *)
(* variant: the fetch is undone, PC stays on the offending byte *)
OpDefault_Rewind(v) ==
    [v EXCEPT !.error = VM_ERROR_INVALID_OPCODE, !.pc = U16(v.pc - 1)]

(* variant: the error slot is set but running stays true *)
OpHalt_KeepsRunning(v) == [v EXCEPT !.error = VM_ERROR_HALT]

(* OP_HALT: vm->running = false; vm->error = VM_ERROR_HALT *)
OpHalt(v) == [v EXCEPT !.running = FALSE, !.error = VM_ERROR_HALT]

(* default: vm->error = VM_ERROR_INVALID_OPCODE *)
OpDefault(v) == [v EXCEPT !.error = VM_ERROR_INVALID_OPCODE]

Dispatch(v, c, opcode, bld) ==
    LET only(w) == [vm |-> w, ctx |-> c]
    IN  CASE opcode = OP_NOP -> only(v)
          [] opcode = OP_HALT -> only(OpHalt(v))
          [] opcode = OP_PUSH -> only(OpPush(v))
          [] opcode = OP_POP -> only(vm_pop(v).vm)
          [] opcode = OP_DUP -> only(OpDup(v))
          [] opcode = OP_SWAP -> only(OpSwap(v))
          [] opcode \in {OP_ADD, OP_SUB, OP_MUL, OP_AND, OP_OR, OP_XOR, OP_SHL,
                         OP_SHR, OP_EQ, OP_NEQ, OP_GT, OP_LT, OP_GTE, OP_LTE} ->
                only(BinOp(v, opcode, bld))
          [] opcode \in {OP_DIV, OP_MOD} -> only(DivMod(v, opcode, bld))
          [] opcode \in {OP_NEG, OP_NOT} -> only(UnOp(v, opcode, bld))
          [] opcode = OP_LOAD -> only(OpLoad(v))
          [] opcode = OP_STORE -> only(OpStore(v))
          [] opcode = OP_LOAD_IND -> only(OpLoadInd(v, bld))
          [] opcode = OP_STORE_IND -> only(OpStoreInd(v, bld))
          [] opcode = OP_JMP -> only(OpJmp(v))
          [] opcode = OP_JZ -> only(OpJz(v))
          [] opcode = OP_JNZ -> only(OpJnz(v))
          [] opcode = OP_CALL -> only(OpCall(v))
          [] opcode = OP_RET -> only(OpRet(v))
          [] opcode = OP_IO -> OpIo(v, c)
          [] OTHER -> only(OpDefault(v))

(* ------------------------- the host's events -------------------------- *)
MaxEvents == 2

Ev(type, sym, x, y, buttons) ==
    [type |-> type, sym |-> sym, x |-> x, y |-> y, buttons |-> buttons]

(* a window close, two key presses (keycode 322 has low byte 66) and a   *)
(* mouse event                                                            *)
Events ==
    {Ev("quit", 0, 0, 0, 0), Ev("key", 65, 0, 0, 0), Ev("key", 322, 0, 0, 0),
     Ev("mouse", 0, 600, 9, 1)}

(* the events SDL_PollEvent can hand out during one pump *)
Batches(n) == UNION {[1 .. k -> Events] : k \in 0 .. n}

(* ------------------------------ images -------------------------------- *)
RECURSIVE Place(_, _, _)
Place(m, at, bytes) ==
    IF bytes = <<>> THEN m
    ELSE Place(MemWrite(m, at, Head(bytes)), at + 1, Tail(bytes))

ZeroMem == [base |-> 0, cells |-> <<>>]

(* an image file whose bytes are `bytes`, loaded at address 0 *)
Prog(bytes) == Place(ZeroMem, 0, bytes)

Lo(a) == a % 256
Hi(a) == (a \div 256) % 256

(* CALL at `site` (reached by a jump, with one byte already on the       *)
(* stack), a subroutine at `target` made of `body` and RET, and HALT at   *)
(* the return address unless the return address wraps to 0                *)
CallImage(site, target, body) ==
    LET m0 == Prog(<<OP_JMP, Lo(site - 2), Hi(site - 2)>>)
        m1 == Place(m0, site - 2, <<OP_PUSH, 9, OP_CALL, Lo(target), Hi(target)>>)
        m2 == IF U16(site + 3) = 0 THEN m1 ELSE Place(m1, U16(site + 3), <<OP_HALT>>)
    IN  Place(m2, target, body \o <<OP_RET>>)

(* CALL in the last three bytes of memory: the return address wraps to 0  *)
WrapCallImage(target) ==
    Place(Place(Prog(<<OP_JMP, 253, 255>>), 65533, <<OP_CALL, Lo(target), Hi(target)>>),
          target, <<OP_PUSH, OP_HALT, OP_STORE, 0, 0, OP_RET>>)

CallSites == {5, 510}
CallTargets == {768, 4660}
(* a body that stores HALT over the entry jump, so that a return to       *)
(* address 0 stops                                                        *)
HaltAtZero == <<OP_PUSH, OP_HALT, OP_STORE, 0, 0>>
CallBodies == {<<>>, <<OP_PUSH, 7, OP_POP>>, HaltAtZero}

CallImages ==
    {CallImage(s, t, b) : s \in CallSites, t \in CallTargets, b \in CallBodies}
    \cup {WrapCallImage(t) : t \in CallTargets}
    \cup {Place(Prog(<<OP_JMP, 254, 255>>), 65534, <<OP_CALL>>)}

ReadImages ==
    {Prog(<<OP_IO, IO_READ_CHAR, OP_HALT, OP_HALT>>),
     Prog(<<OP_PUSH, 5, OP_IO, IO_READ_CHAR, OP_HALT, OP_HALT>>),
     Prog(<<OP_IO, IO_READ_CHAR, OP_NOP, OP_IO, IO_READ_CHAR, OP_HALT, OP_HALT>>),
     Prog(<<OP_IO, IO_POLL_KEY, OP_IO, IO_GET_KEY, OP_IO, IO_POLL_KEY, OP_HALT>>)}

(* every instruction that pops, run on an empty stack and on a stack of   *)
(* one byte                                                               *)
PopOps ==
    {OP_POP, OP_DUP, OP_SWAP, OP_ADD, OP_SUB, OP_MUL, OP_DIV, OP_MOD, OP_NEG,
     OP_AND, OP_OR, OP_XOR, OP_NOT, OP_SHL, OP_SHR, OP_EQ, OP_NEQ, OP_GT,
     OP_LT, OP_GTE, OP_LTE, OP_LOAD_IND, OP_STORE_IND, OP_RET}
PopIos == {IO_PRINT_CHAR, IO_DRAW_PIXEL, IO_DRAW_LINE, IO_FILL_RECT}

UnderflowImages ==
    {Prog(<<op, OP_HALT>>) : op \in PopOps}
    \cup {Prog(<<OP_PUSH, b, op, OP_HALT>>) : b \in {0, 3}, op \in {OP_DIV, OP_MOD, OP_ADD}}
    \cup {Prog(<<op, 4, 0, OP_HALT, OP_HALT>>) : op \in {OP_STORE, OP_JZ, OP_JNZ}}
    \cup {Prog(<<OP_IO, io, OP_HALT>>) : io \in PopIos}

ExitImages ==
    {Prog(<<OP_IO, IO_EXIT, OP_HALT>>),
     Prog(<<OP_PUSH, 5, OP_PUSH, 7, OP_ADD, OP_IO, IO_EXIT>>),
     Prog(<<OP_HALT>>),
     Prog(<<OP_PUSH, 65, OP_IO, IO_PRINT_CHAR, OP_HALT>>),
     Prog(<<OP_IO, 3, OP_HALT>>),
     Prog(<<200>>)}

(* execution that runs past address 0xFFFF *)
WrapImages ==
    {Prog(<<OP_JMP, 255, 255>>),
     Place(Prog(<<OP_JMP, 254, 255>>), 65534, <<OP_PUSH, 1>>)}

Images == CallImages \cup ReadImages \cup UnderflowImages \cup ExitImages \cup WrapImages

(* a 65536-byte image file filled with PUSH 2 *)
FillImage == [base |-> OP_PUSH, cells |-> <<>>]

(* pops at depth one and two, and one pop too many *)
StackEdgeImages ==
    {Prog(<<OP_PUSH, 7, OP_POP, OP_POP, OP_HALT>>),
     Prog(<<OP_PUSH, 7, OP_PUSH, 9, OP_POP, OP_POP, OP_HALT>>)}

(* ------------------------------ builds -------------------------------- *)
AllBuilds == [argorder : {"lr", "rl"}, shift : {"x86", "arm"}]

Uses(image, ops) ==
    image.base \in ops \/ \E a \in DOMAIN image.cells : image.cells[a] \in ops

(* builds differ only on the instructions whose C code is open *)
Builds(image) ==
    {b \in AllBuilds :
        /\ (Uses(image, {OP_LOAD_IND, OP_STORE_IND}) \/ b.argorder = "lr")
        /\ (Uses(image, {OP_SHL, OP_SHR}) \/ b.shift = "x86")}

(* ---------------------- main and run_vm (vm.c) ------------------------ *)
NoInstr ==
    [addr |-> -1, op |-> -1, arg |-> -1, sp |-> -1, wait |-> FALSE,
     keyav |-> FALSE, key |-> -1, blocked |-> -1,
     top |-> -1, under |-> -1, third |-> -1]
NoCall == [site |-> -1, sp |-> -1, intact |-> FALSE, returned |-> FALSE]

(* the address of the IO READ_CHAR instruction that instruction record i  *)
(* describes, when its dispatch found neither flag set (-1 otherwise)     *)
Pending(i) ==
    IF i.op = OP_IO /\ i.arg = IO_READ_CHAR /\ ~i.wait /\ ~i.keyav
    THEN i.addr ELSE -1

(* the globals of assembler.c at program start, the messages printed     *)
(* (errors, warnings), the output file and the exit code of the process;  *)
(* seen_refs and seen_defs are history: every label operand of a 2-byte   *)
(* slot and every label definition of the source, with the output         *)
(* position at which pass one met it                                      *)
AsmStart ==
    [labels |-> <<>>, label_refs |-> <<>>, output |-> <<>>, output_pos |-> 0,
     errors |-> <<>>, warnings |-> <<>>, seen_refs |-> <<>>, seen_defs |-> <<>>,
     emitted |-> 0,
     file |-> [written |-> FALSE, len |-> 0, bytes |-> <<>>], exit |-> -1]

(* main of vm.c up to the call of run_vm, for an image file and a host    *)
(* that delivers at most `events` events                                  *)
InitWith(images, events) ==
    /\ \E image \in images :
          /\ vm = load_program(init_vm, image)
          /\ build \in Builds(image)
    /\ ctx = platform_io_init
    /\ loc = "loop"
    /\ budget = events
    /\ iter = "init"
    /\ last = NoInstr
    /\ lastCall = NoCall
    /\ exit_status = -1
    /\ dl = NoLine
    /\ comp = NoComp
    /\ asm = AsmStart
    /\ src = <<>>
    /\ aloc = "idle"

Init == InitWith(Images, MaxEvents)

(* a variant of the loop condition that looks at the running flag only *)
LoopContinues_IgnoreError(v) == v.running

(* while (vm->running && vm->error == VM_OK), which also covers the break *)
(* on error at the end of the loop body                                   *)
LoopContinues(v) == v.running /\ v.error = VM_OK

(* a variant of the shutdown branch that also marks the run as halted *)
ShutdownVm_SetsHalt(v) == [v EXCEPT !.running = FALSE, !.error = VM_ERROR_HALT]

(* the effect of the shutdown branch on the machine: vm->running = false *)
ShutdownVm(v) == [v EXCEPT !.running = FALSE]

(* the pump at the head of an iteration: the events that have arrived *)
Pump(batch) ==
    /\ loc = "loop"
    /\ batch \in Batches(budget)
    /\ budget' = budget - Len(batch)

(* platform_io_process_events returned false: running = false; break *)
Shutdown ==
    \E batch \in Batches(MaxEvents) :
        LET r == platform_io_process_events(ctx, batch)
        IN  /\ Pump(batch)
            /\ ~r.ok
            /\ vm' = ShutdownVm(vm)
            /\ ctx' = r.ctx
            /\ loc' = "returned"
            /\ iter' = "quit"
            /\ UNCHANGED <<last, lastCall, build, exit_status>>
            /\ UNCHANGED asmvars
            /\ UNCHANGED toolvars

(* platform_io_is_waiting_for_input: continue *)
WaitSkip ==
    \E batch \in Batches(MaxEvents) :
        LET r == platform_io_process_events(ctx, batch)
        IN  /\ Pump(batch)
            /\ r.ok
            /\ platform_io_is_waiting_for_input(r.ctx)
            /\ ctx' = r.ctx
            /\ iter' = "skip"
            /\ UNCHANGED <<vm, loc, last, lastCall, build, exit_status>>
            /\ UNCHANGED asmvars
            /\ UNCHANGED toolvars

(* history of the last CALL: the address of its opcode, SP before it, and *)
(* whether the two bytes of its return address are as it pushed them; a   *)
(* RET closes the record, the instruction after the RET drops it          *)
TrackCall(opcode, v0, v1) ==
    IF opcode = OP_CALL /\ v1.error = VM_OK
    THEN [site |-> U16(v0.pc - 1), sp |-> v0.sp, intact |-> TRUE, returned |-> FALSE]
    ELSE IF lastCall.site = -1 \/ lastCall.returned THEN NoCall
    ELSE IF opcode = OP_RET THEN [lastCall EXCEPT !.returned = TRUE]
    ELSE [lastCall EXCEPT !.intact =
            /\ lastCall.intact
            /\ \A a \in {lastCall.sp, U16(lastCall.sp - 1)} :
                   MemRead(v1.memory, a) = MemRead(v0.memory, a)]

(* the PC bounds check, the fetch, the switch and the break on error *)
Step(v, c, bld) ==
    IF v.pc >= VM_MEMORY_SIZE
    THEN [vm |-> [v EXCEPT !.error = VM_ERROR_INVALID_ADDRESS], ctx |-> c, fetched |-> FALSE]
    ELSE LET opcode == MemRead(v.memory, v.pc)
             d == Dispatch([v EXCEPT !.pc = U16(v.pc + 1)], c, opcode, bld)
         IN  [vm |-> d.vm, ctx |-> d.ctx, fetched |-> TRUE]

Execute ==
    \E batch \in Batches(MaxEvents) :
        LET r == platform_io_process_events(ctx, batch)
            s == Step(vm, r.ctx, build)
            opcode == MemRead(vm.memory, vm.pc)
        IN  /\ Pump(batch)
            /\ r.ok
            /\ ~platform_io_is_waiting_for_input(r.ctx)
            /\ vm' = s.vm
            /\ ctx' = s.ctx
            /\ loc' = IF LoopContinues(s.vm) THEN "loop" ELSE "returned"
            /\ iter' = IF s.fetched THEN "exec" ELSE "nofetch"
            /\ last' = IF s.fetched
                       THEN [addr |-> vm.pc, op |-> opcode,
                             arg |-> MemRead(vm.memory, U16(vm.pc + 1)),
                             sp |-> vm.sp,
                             wait |-> r.ctx.waiting_for_input,
                             keyav |-> r.ctx.key_available,
                             key |-> r.ctx.last_key,
                             blocked |-> Pending(last),
                             top |-> MemRead(vm.memory, U16(vm.sp + 1)),
                             under |-> MemRead(vm.memory, U16(vm.sp + 2)),
                             third |-> MemRead(vm.memory, U16(vm.sp + 3))]
                       ELSE last
            /\ lastCall' = IF s.fetched
                           THEN TrackCall(opcode, [vm EXCEPT !.pc = U16(vm.pc + 1)], s.vm)
                           ELSE lastCall
            /\ UNCHANGED <<build, exit_status>>
            /\ UNCHANGED asmvars
            /\ UNCHANGED toolvars

(* main after run_vm: the report of the result prints only, and the       *)
(* function ends with return 0                                            *)
main_return(error) == 0

(* main returns after run_vm has returned *)
MainReturn ==
    /\ loc = "returned"
    /\ exit_status = -1
    /\ exit_status' = main_return(vm.error)
    /\ UNCHANGED <<vm, ctx, loc, budget, iter, last, lastCall, build>>
    /\ UNCHANGED asmvars
    /\ UNCHANGED toolvars

Next == Shutdown \/ WaitSkip \/ Execute \/ MainReturn

Spec == Init /\ [][Next]_vars

(* the small images, and the filled image on a host without events *)
InitDeep == InitWith(Images, MaxEvents) \/ InitWith({FillImage} \cup StackEdgeImages, 0)
SpecDeep == InitDeep /\ [][Next]_vars

(* ============================ assembler.c ============================= *)
MAX_LABELS == 100

(* C strings are sequences of character codes.  Chr gives the code of a  *)
(* one-character string, Str the codes of a tuple of them.                *)
Upper ==
    <<"A", "B", "C", "D", "E", "F", "G", "H", "I", "J", "K", "L", "M",
      "N", "O", "P", "Q", "R", "S", "T", "U", "V", "W", "X", "Y", "Z">>
Lower ==
    <<"a", "b", "c", "d", "e", "f", "g", "h", "i", "j", "k", "l", "m",
      "n", "o", "p", "q", "r", "s", "t", "u", "v", "w", "x", "y", "z">>
Digit == <<"0", "1", "2", "3", "4", "5", "6", "7", "8", "9">>

Chr(ch) ==
    CASE \E i \in 1 .. 26 : Upper[i] = ch -> 64 + (CHOOSE i \in 1 .. 26 : Upper[i] = ch)
      [] \E i \in 1 .. 26 : Lower[i] = ch -> 96 + (CHOOSE i \in 1 .. 26 : Lower[i] = ch)
      [] \E i \in 1 .. 10 : Digit[i] = ch -> 47 + (CHOOSE i \in 1 .. 10 : Digit[i] = ch)
      [] ch = " " -> 32
      [] ch = "\t" -> 9
      [] ch = "-" -> 45
      [] ch = ":" -> 58
      [] ch = ";" -> 59
      [] ch = "_" -> 95

Str(t) == [i \in 1 .. Len(t) |-> Chr(t[i])]

isspace(c) == c = 32 \/ (c >= 9 /\ c <= 13)
isalpha(c) == (c >= 65 /\ c <= 90) \/ (c >= 97 /\ c <= 122)
toupper(c) == IF c >= 97 /\ c <= 122 THEN c - 32 ELSE c

RECURSIVE SkipSpace(_)
SkipSpace(s) == IF s # <<>> /\ isspace(Head(s)) THEN SkipSpace(Tail(s)) ELSE s

RECURSIVE DropTrailingSpace(_)
DropTrailingSpace(s) ==
    IF Len(s) > 1 /\ isspace(s[Len(s)]) THEN DropTrailingSpace(SubSeq(s, 1, Len(s) - 1)) ELSE s

trim_whitespace(s) == DropTrailingSpace(SkipSpace(s))

(* strchr: the index of the first c in s, 0 when there is none *)
strchr(s, c) ==
    IF \E i \in 1 .. Len(s) : s[i] = c
    THEN CHOOSE i \in 1 .. Len(s) : s[i] = c /\ \A j \in 1 .. (i - 1) : s[j] # c
    ELSE 0

IsDelim(c) == c = 32 \/ c = 9

RECURSIVE SkipDelim(_)
SkipDelim(s) == IF s # <<>> /\ IsDelim(Head(s)) THEN SkipDelim(Tail(s)) ELSE s

(* strtok(s, " \t"): .tok is the token (<<>> for NULL), .rest what the    *)
(* next strtok(NULL, " \t") scans                                         *)
strtok(s) ==
    LET t == SkipDelim(s)
        n == IF \E i \in 1 .. Len(t) : IsDelim(t[i])
             THEN (CHOOSE i \in 1 .. Len(t) : IsDelim(t[i]) /\ \A j \in 1 .. (i - 1) : ~IsDelim(t[j])) - 1
             ELSE Len(t)
    IN  [tok |-> SubSeq(t, 1, n), rest |-> SubSeq(t, n + 2, Len(t))]

DigitVal(c) ==
    IF c >= 48 /\ c <= 57 THEN c - 48
    ELSE IF c >= 97 /\ c <= 122 THEN c - 87
    ELSE IF c >= 65 /\ c <= 90 THEN c - 55
    ELSE 99

RECURSIVE Digits(_, _, _)
Digits(s, base, acc) ==
    IF s # <<>> /\ DigitVal(Head(s)) < base
    THEN Digits(Tail(s), base, acc * base + DigitVal(Head(s)))
    ELSE acc

(* strtol(s, NULL, base) for base 10 and 16 *)
strtol(s, base) ==
    LET t == SkipSpace(s)
        neg == t # <<>> /\ Head(t) = 45
        u == IF t # <<>> /\ Head(t) \in {43, 45} THEN Tail(t) ELSE t
        w == IF base = 16 /\ Len(u) >= 3 /\ u[1] = 48 /\ u[2] \in {88, 120}
                /\ DigitVal(u[3]) < 16
             THEN SubSeq(u, 3, Len(u)) ELSE u
        n == Digits(w, base, 0)
    IN  IF neg THEN -n ELSE n

parse_number(s) ==
    IF Len(s) >= 2 /\ s[1] = 48 /\ s[2] = 120 THEN strtol(s, 16) ELSE strtol(s, 10)

(* static uint8_t output[VM_MEMORY_SIZE] is kept as the cells that are    *)
(* not zero; output_pos is a uint16_t, so the guard of emit_byte is       *)
(* always true and the cursor wraps                                       *)
OutRead(out, i) == IF i \in DOMAIN out THEN out[i] ELSE 0
OutWrite(out, i, b) ==
    IF b = 0 THEN [x \in (DOMAIN out) \ {i} |-> out[x]] ELSE (i :> b) @@ out

emit_byte(a, byte) ==
    IF a.output_pos < VM_MEMORY_SIZE
    THEN [a EXCEPT !.output = OutWrite(a.output, a.output_pos, U8(byte)),
                   !.output_pos = U16(a.output_pos + 1),
                   !.emitted = @ + 1]
    ELSE [a EXCEPT !.emitted = @ + 1]

(* emit_word with the bytes in the other order *)
emit_word_HighFirst(a, word) ==
    emit_byte(emit_byte(a, (U16(word) \div 256) % 256), U16(word) % 256)
emit_word(a, word) ==
    emit_byte(emit_byte(a, U16(word) % 256), (U16(word) \div 256) % 256)

(* the index of the first label named `name`, 0 for the -1 of the code *)
find_label(a, name) ==
    IF \E i \in 1 .. Len(a.labels) : a.labels[i].name = name
    THEN CHOOSE i \in 1 .. Len(a.labels) :
            a.labels[i].name = name /\ \A j \in 1 .. (i - 1) : a.labels[j].name # name
    ELSE 0

add_label(a, name, address) ==
    IF Len(a.labels) < MAX_LABELS
    THEN [a EXCEPT !.labels = Append(a.labels, [name |-> name, address |-> address])]
    ELSE a

add_label_ref(a, name, patch_location) ==
    IF Len(a.label_refs) < MAX_LABELS
    THEN [a EXCEPT !.label_refs =
            Append(a.label_refs, [name |-> name, patch_location |-> patch_location])]
    ELSE a

(* the loop of patch_labels: reference i with a known label writes the    *)
(* low byte at its patch position and the high byte after it, in order,   *)
(* so the last reference that covers a position decides its byte; the     *)
(* others are reported                                                    *)
patch_labels(a) ==
    LET n == Len(a.label_refs)
        idx(i) == find_label(a, a.label_refs[i].name)
        at(i) == a.label_refs[i].patch_location
        hits(p) == {i \in 1 .. n : idx(i) > 0 /\ p \in {at(i), at(i) + 1}}
        byte(p) ==
            LET i == CHOOSE h \in hits(p) : \A g \in hits(p) : g <= h
                addr == a.labels[idx(i)].address
            IN  IF p = at(i) THEN addr % 256 ELSE (addr \div 256) % 256
        all == DOMAIN a.output \cup UNION {{at(i), at(i) + 1} : i \in {j \in 1 .. n : idx(j) > 0}}
        val(p) == IF hits(p) # {} THEN byte(p) ELSE a.output[p]
    IN  [a EXCEPT
           !.output = [p \in {q \in all : val(q) # 0} |-> val(p)],
           !.errors = [k \in 1 .. Cardinality({i \in 1 .. n : idx(i) = 0}) |->
                         a.label_refs[CHOOSE i \in 1 .. n :
                             /\ idx(i) = 0
                             /\ Cardinality({j \in 1 .. i : idx(j) = 0}) = k].name]]

(* the references whose high byte patch_labels writes behind the array *)
Overrun(a) ==
    {i \in 1 .. Len(a.label_refs) :
        /\ find_label(a, a.label_refs[i].name) > 0
        /\ a.label_refs[i].patch_location + 1 >= VM_MEMORY_SIZE}

(* what a run of patch_labels leaves.  output[65536] is not an element   *)
(* of the array: the store lands in whatever the build placed behind it, *)
(* either storage nothing else uses (the cell is kept at index 65536) or *)
(* the next static object, output_pos, whose low byte it replaces        *)
patch_outcomes(a) ==
    LET p == patch_labels(a)
        i == CHOOSE r \in Overrun(a) : \A q \in Overrun(a) : q <= r
        byte == (a.labels[find_label(a, a.label_refs[i].name)].address \div 256) % 256
    IN  IF Overrun(a) = {} THEN {p}
        ELSE {p,
              [p EXCEPT !.output = [q \in (DOMAIN p.output) \ {VM_MEMORY_SIZE} |-> p.output[q]],
                        !.output_pos = (a.output_pos \div 256) * 256 + byte]}

(* the if / else-if chain of assemble_file: mnemonic, opcode and operand  *)
(* ("none", "byte": emit_byte(parse_number), "word": label or emit_word)  *)
Mnemonics ==
    <<[name |-> Str(<<"N", "O", "P">>), op |-> OP_NOP, kind |-> "none"],
      [name |-> Str(<<"H", "A", "L", "T">>), op |-> OP_HALT, kind |-> "none"],
      [name |-> Str(<<"P", "U", "S", "H">>), op |-> OP_PUSH, kind |-> "byte"],
      [name |-> Str(<<"P", "O", "P">>), op |-> OP_POP, kind |-> "none"],
      [name |-> Str(<<"D", "U", "P">>), op |-> OP_DUP, kind |-> "none"],
      [name |-> Str(<<"S", "W", "A", "P">>), op |-> OP_SWAP, kind |-> "none"],
      [name |-> Str(<<"A", "D", "D">>), op |-> OP_ADD, kind |-> "none"],
      [name |-> Str(<<"S", "U", "B">>), op |-> OP_SUB, kind |-> "none"],
      [name |-> Str(<<"M", "U", "L">>), op |-> OP_MUL, kind |-> "none"],
      [name |-> Str(<<"D", "I", "V">>), op |-> OP_DIV, kind |-> "none"],
      [name |-> Str(<<"M", "O", "D">>), op |-> OP_MOD, kind |-> "none"],
      [name |-> Str(<<"N", "E", "G">>), op |-> OP_NEG, kind |-> "none"],
      [name |-> Str(<<"A", "N", "D">>), op |-> OP_AND, kind |-> "none"],
      [name |-> Str(<<"O", "R">>), op |-> OP_OR, kind |-> "none"],
      [name |-> Str(<<"X", "O", "R">>), op |-> OP_XOR, kind |-> "none"],
      [name |-> Str(<<"N", "O", "T">>), op |-> OP_NOT, kind |-> "none"],
      [name |-> Str(<<"S", "H", "L">>), op |-> OP_SHL, kind |-> "none"],
      [name |-> Str(<<"S", "H", "R">>), op |-> OP_SHR, kind |-> "none"],
      [name |-> Str(<<"E", "Q">>), op |-> OP_EQ, kind |-> "none"],
      [name |-> Str(<<"N", "E", "Q">>), op |-> OP_NEQ, kind |-> "none"],
      [name |-> Str(<<"G", "T">>), op |-> OP_GT, kind |-> "none"],
      [name |-> Str(<<"L", "T">>), op |-> OP_LT, kind |-> "none"],
      [name |-> Str(<<"G", "T", "E">>), op |-> OP_GTE, kind |-> "none"],
      [name |-> Str(<<"L", "T", "E">>), op |-> OP_LTE, kind |-> "none"],
      [name |-> Str(<<"L", "O", "A", "D">>), op |-> OP_LOAD, kind |-> "word"],
      [name |-> Str(<<"S", "T", "O", "R", "E">>), op |-> OP_STORE, kind |-> "word"],
      [name |-> Str(<<"L", "O", "A", "D", "_", "I", "N", "D">>), op |-> OP_LOAD_IND, kind |-> "none"],
      [name |-> Str(<<"S", "T", "O", "R", "E", "_", "I", "N", "D">>), op |-> OP_STORE_IND, kind |-> "none"],
      [name |-> Str(<<"J", "M", "P">>), op |-> OP_JMP, kind |-> "word"],
      [name |-> Str(<<"J", "Z">>), op |-> OP_JZ, kind |-> "word"],
      [name |-> Str(<<"J", "N", "Z">>), op |-> OP_JNZ, kind |-> "word"],
      [name |-> Str(<<"C", "A", "L", "L">>), op |-> OP_CALL, kind |-> "word"],
      [name |-> Str(<<"R", "E", "T">>), op |-> OP_RET, kind |-> "none"],
      [name |-> Str(<<"S", "Y", "S">>), op |-> OP_IO, kind |-> "byte"]>>

(* a name of the label grammar: it starts with a letter or an underscore  *)
IsLabelStart(c) == isalpha(c) \/ c = 95

(* history: the label operand of a 2-byte slot at position pos *)
SeeRef(a, operand, pos) ==
    IF IsLabelStart(operand[1])
    THEN [a EXCEPT !.seen_refs = Append(a.seen_refs, [name |-> operand, pos |-> pos])]
    ELSE a

(* history: the definition of label `name` at position pos *)
SeeDef(a, name, pos) ==
    [a EXCEPT !.seen_defs =
        Append(a.seen_defs, [name |-> name, pos |-> pos, offset |-> a.emitted])]

(* the part of the loop body of assemble_file after the label handling:   *)
(* strtok, toupper, the mnemonic chain                                    *)
emit_instruction(a, text) ==
    LET t1 == strtok(text)
        token == [i \in 1 .. Len(t1.tok) |-> toupper(t1.tok[i])]
        t2 == strtok(t1.rest)
        operand == t2.tok
    IN  IF t1.tok = <<>> THEN a
        ELSE IF \E i \in 1 .. Len(Mnemonics) : Mnemonics[i].name = token
        THEN LET m == Mnemonics[CHOOSE i \in 1 .. Len(Mnemonics) : Mnemonics[i].name = token]
                 a1 == emit_byte(a, m.op)
             IN  IF m.kind = "none" \/ operand = <<>> THEN a1
                 ELSE IF m.kind = "byte" THEN emit_byte(a1, parse_number(operand))
                 ELSE LET a2 == SeeRef(a1, operand, a1.output_pos)
                      IN  IF isalpha(operand[1])
                          THEN emit_word(add_label_ref(a2, operand, a2.output_pos), 0)
                          ELSE emit_word(a2, parse_number(operand))
        ELSE [a EXCEPT !.warnings = Append(a.warnings, token)]

(* one iteration of the fgets loop of assemble_file *)
assemble_line(a, raw) ==
    LET line == trim_whitespace(raw)
        colon == strchr(line, 58)
    IN  IF line = <<>> \/ line[1] = 59 THEN a
        ELSE IF colon > 0
        THEN LET name == trim_whitespace(SubSeq(line, 1, colon - 1))
                 a1 == add_label(SeeDef(a, name, a.output_pos), name, a.output_pos)
                 instruction == trim_whitespace(SubSeq(line, colon + 1, Len(line)))
             IN  IF instruction # <<>> /\ instruction[1] # 59
                 THEN emit_instruction(a1, instruction)
                 ELSE a1
        ELSE emit_instruction(a, line)

(* ------------------------- assembler sources -------------------------- *)
SrcBackward ==
    <<Str(<<"s", "t", "a", "r", "t", ":">>),
      Str(<<"P", "U", "S", "H", " ", "1">>),
      Str(<<"J", "M", "P", " ", "s", "t", "a", "r", "t">>),
      Str(<<"H", "A", "L", "T">>)>>

SrcForward ==
    <<Str(<<"J", "Z", " ", "e", "n", "d">>),
      Str(<<"N", "O", "P">>),
      Str(<<"e", "n", "d", ":", " ", "H", "A", "L", "T">>)>>

SrcBoth ==
    <<Str(<<" ", " ", "j", "m", "p", " ", "m", "a", "i", "n">>),
      Str(<<"s", "u", "b", ":", " ", "r", "e", "t">>),
      Str(<<"m", "a", "i", "n", ":">>),
      Str(<<"\t", "C", "A", "L", "L", " ", "s", "u", "b">>),
      Str(<<"L", "O", "A", "D", " ", "d", "a", "t", "a">>),
      Str(<<"S", "T", "O", "R", "E", " ", "0", "x", "0", "2", "0", "0">>),
      Str(<<"H", "A", "L", "T">>),
      Str(<<"d", "a", "t", "a", ":">>)>>

SrcUndefined ==
    <<Str(<<"N", "O", "P">>),
      Str(<<"J", "M", "P", " ", "n", "o", "w", "h", "e", "r", "e">>),
      Str(<<"H", "A", "L", "T">>)>>

SrcMixed ==
    <<Str(<<"t", "o", "p", ":", " ", "P", "U", "S", "H", " ", "0", "x", "4", "1">>),
      Str(<<"J", "N", "Z", " ", "t", "o", "p">>),
      Str(<<"C", "A", "L", "L", " ", "m", "i", "s", "s", "i", "n", "g">>),
      Str(<<"S", "Y", "S", " ", "1">>),
      Str(<<"H", "A", "L", "T">>)>>

SrcUnderscore ==
    <<Str(<<"N", "O", "P">>),
      Str(<<"_", "x", ":", " ", "J", "M", "P", " ", "_", "x">>)>>

SrcDuplicate ==
    <<Str(<<"a", ":", " ", "N", "O", "P">>),
      Str(<<"a", ":", " ", "N", "O", "P">>),
      Str(<<"J", "M", "P", " ", "a">>)>>

SrcPlain ==
    <<Str(<<";", " ", "c", "o", "u", "n", "t", "e", "r">>),
      Str(<<>>),
      Str(<<"P", "U", "S", "H", " ", "-", "1">>),
      Str(<<"p", "u", "s", "h", " ", "3", "0", "0">>),
      Str(<<"L", "o", "a", "d", " ", "6", "5", "5", "3", "5">>),
      Str(<<"F", "R", "O", "B", " ", "1">>),
      Str(<<"S", "Y", "S", " ", "0">>)>>


Repeat(line, n) == [i \in 1 .. n |-> line]

(* more references than label_refs holds, to a label defined at the end *)
SrcManyRefs ==
    Repeat(Str(<<"J", "M", "P", " ", "f", "a", "r">>), MAX_LABELS + 1) \o <<Str(<<"f", "a", "r", ":", " ", "H", "A", "L", "T">>)>>

(* a label beyond the first 256 bytes of output *)
SrcFar ==
    <<Str(<<"J", "M", "P", " ", "f", "a", "r">>)>> \o Repeat(Str(<<"C", "A", "L", "L", " ", "4", "6", "6", "0">>), 90) \o <<Str(<<"f", "a", "r", ":", " ", "H", "A", "L", "T">>), Str(<<"J", "Z", " ", "f", "a", "r">>)>>

(* instructions followed by a comment, the second comment with a colon *)
SrcComment ==
    <<Str(<<"P", "U", "S", "H", " ", "7", " ", ";", " ", "s", "e", "v", "e", "n">>),
      Str(<<"P", "U", "S", "H", " ", "5", " ", ";", " ", "n", "o", "t", "e", ":", " ", "x">>),
      Str(<<"H", "A", "L", "T">>)>>
(* ---------------- sources with numeric operands only ------------------ *)
(* an instruction is a line of the opcode table (mn), an operand that     *)
(* fits its slot, the letter case of the mnemonic and the notation of     *)
(* the operand                                                            *)
ByteOperands == <<0, 1, 10, 171, 255>>
WordOperands == <<0, 255, 256, 4660, 43981, 65535>>
NumericCount == 6

tolower(c) == IF c >= 65 /\ c <= 90 THEN c + 32 ELSE c

RECURSIVE Decimal(_)
Decimal(n) == IF n < 10 THEN <<48 + n>> ELSE Append(Decimal(n \div 10), 48 + (n % 10))

HexDigit(d, upper) == IF d < 10 THEN 48 + d ELSE IF upper THEN 55 + d ELSE 87 + d

RECURSIVE Hex(_, _)
Hex(n, upper) ==
    IF n < 16 THEN <<HexDigit(n, upper)>>
    ELSE Append(Hex(n \div 16, upper), HexDigit(n % 16, upper))

Numeral(n, notation) ==
    CASE notation = "dec" -> Decimal(n)
      [] notation = "hex" -> <<48, 120>> \o Hex(n, FALSE)
      [] notation = "HEX" -> <<48, 120>> \o Hex(n, TRUE)
      [] notation = "padded" -> <<48, 120, 48>> \o Hex(n, TRUE)

Cased(name, style) ==
    CASE style = "upper" -> name
      [] style = "lower" -> [i \in 1 .. Len(name) |-> tolower(name[i])]
      [] style = "mixed" -> [i \in 1 .. Len(name) |-> IF i % 2 = 0 THEN tolower(name[i]) ELSE name[i]]

(* the source line of an instruction *)
Text(ins) ==
    IF Mnemonics[ins.mn].kind = "none"
    THEN Cased(Mnemonics[ins.mn].name, ins.style)
    ELSE Cased(Mnemonics[ins.mn].name, ins.style) \o <<32>> \o Numeral(ins.operand, ins.notation)

Styles == <<"upper", "lower", "mixed">>
Notations == <<"dec", "hex", "HEX", "padded">>

(* program k: every mnemonic once, operands, cases and notations rotated *)
NumericProgram(k) ==
    [i \in 1 .. Len(Mnemonics) |->
        [mn |-> i,
         operand |-> CASE Mnemonics[i].kind = "none" -> 0
                       [] Mnemonics[i].kind = "byte" -> ByteOperands[((i + k) % Len(ByteOperands)) + 1]
                       [] Mnemonics[i].kind = "word" -> WordOperands[((i + k) % Len(WordOperands)) + 1],
         style |-> Styles[((i + k) % 3) + 1],
         notation |-> Notations[((i + (k \div 3) + k) % 4) + 1]]]

NumericPrograms == {NumericProgram(k) : k \in 0 .. (NumericCount - 1)}
NumericInstrs == UNION {{p[i] : i \in DOMAIN p} : p \in NumericPrograms}
SrcOf(p) == [i \in DOMAIN p |-> Text(p[i])]
NumericSources == {SrcOf(p) : p \in NumericPrograms}
Sources ==
    {SrcBackward, SrcForward, SrcBoth, SrcUndefined, SrcMixed, SrcUnderscore,
     SrcDuplicate, SrcPlain, SrcManyRefs, SrcFar, SrcComment} \cup NumericSources

(* ----------------------- main of assembler.c -------------------------- *)
VmIdle == load_program(init_vm, ZeroMem)

(* a source file as the assembler reads it: each entry is a line and the *)
(* number of times it occurs in a row                                    *)
Once(lines) == [i \in DOMAIN lines |-> [line |-> lines[i], times |-> 1]]

(* a file of more than 65536 bytes of code whose byte 0 is a HALT *)
SrcWrap ==
    <<[line |-> Str(<<"H", "A", "L", "T">>), times |-> 1],
      [line |-> Str(<<"N", "O", "P">>), times |-> VM_MEMORY_SIZE - 1],
      [line |-> Str(<<"e", "n", "d", ":", " ", "P", "U", "S", "H", " ", "7">>), times |-> 1]>>

(* a file of exactly 65536 bytes of code *)
SrcFull ==
    <<[line |-> Str(<<"H", "A", "L", "T">>), times |-> 1],
      [line |-> Str(<<"N", "O", "P">>), times |-> VM_MEMORY_SIZE - 2],
      [line |-> Str(<<"H", "A", "L", "T">>), times |-> 1]>>

(* a reference in the last instruction that starts inside the image, to  *)
(* a label at address 600                                                 *)
SrcLastRef ==
    <<[line |-> Str(<<"N", "O", "P">>), times |-> 600],
      [line |-> Str(<<"f", "a", "r", ":", " ", "H", "A", "L", "T">>), times |-> 1],
      [line |-> Str(<<"N", "O", "P">>), times |-> VM_MEMORY_SIZE - 603],
      [line |-> Str(<<"J", "M", "P", " ", "f", "a", "r">>), times |-> 1]>>

LongSources == {SrcWrap, SrcFull, SrcLastRef}

(* fgets: the line at the read position, and the file after it *)
NextLine(f) == Head(f).line
AfterLine(f) ==
    IF Head(f).times > 1 THEN <<[Head(f) EXCEPT !.times = @ - 1]>> \o Tail(f) ELSE Tail(f)

AsmInitWith(files) ==
    /\ src \in files
    /\ asm = AsmStart
    /\ aloc = "start"
    /\ vm = VmIdle
    /\ ctx = platform_io_init
    /\ loc = "idle"
    /\ budget = 0
    /\ iter = "init"
    /\ last = NoInstr
    /\ lastCall = NoCall
    /\ exit_status = -1
    /\ dl = NoLine
    /\ comp = NoComp
    /\ build \in Builds(ZeroMem)

AsmInit == AsmInitWith({Once(s) : s \in Sources})

(* fopen(filename, "r") in assemble_file *)
AsmOpen ==
    /\ aloc = "start"
    /\ \E opened \in BOOLEAN :
          IF opened
          THEN aloc' = "pass1" /\ asm' = asm
          ELSE aloc' = "exited" /\ asm' = [asm EXCEPT !.exit = 1]
    /\ UNCHANGED src
    /\ UNCHANGED vmvars
    /\ UNCHANGED toolvars

(* fgets returned a line *)
AsmReadLine ==
    /\ aloc = "pass1"
    /\ src # <<>>
    /\ asm' = assemble_line(asm, NextLine(src))
    /\ src' = AfterLine(src)
    /\ UNCHANGED aloc
    /\ UNCHANGED vmvars
    /\ UNCHANGED toolvars

(* end of file: fclose, patch_labels, return 0 *)
AsmPatch ==
    /\ aloc = "pass1"
    /\ src = <<>>
    /\ asm' \in patch_outcomes(asm)
    /\ aloc' = "assembled"
    /\ UNCHANGED src
    /\ UNCHANGED vmvars
    /\ UNCHANGED toolvars

(* assemble_file returned 0: fopen(output, "wb"), fwrite, return 0 *)
AsmWrite ==
    /\ aloc = "assembled"
    /\ \E opened \in BOOLEAN :
          IF opened
          THEN asm' = [asm EXCEPT
                         !.file = [written |-> TRUE, len |-> asm.output_pos,
                                   bytes |-> [i \in {j \in DOMAIN asm.output : j < asm.output_pos}
                                                |-> asm.output[i]]],
                         !.exit = 0]
          ELSE asm' = [asm EXCEPT !.exit = 1]
    /\ aloc' = "exited"
    /\ UNCHANGED src
    /\ UNCHANGED vmvars
    /\ UNCHANGED toolvars

AsmNext == AsmOpen \/ AsmReadLine \/ AsmPatch \/ AsmWrite

AsmSpec == AsmInit /\ [][AsmNext]_vars

(* the assembler on the long source files *)
AsmLongInit == AsmInitWith(LongSources)
AsmLongSpec == AsmLongInit /\ [][AsmNext]_vars

(* --------------------- draw_line, step by step ------------------------ *)
(* the end points of the calls: IO_DRAW_LINE passes four uint8_t          *)
LineXs == {0, 3, 20, 255}
LineYs == {0, 1, 20, 239, 255}

LineInit ==
    /\ dl = NoLine
    /\ comp = NoComp
    /\ asm = AsmStart
    /\ src = <<>>
    /\ aloc = "idle"
    /\ vm = VmIdle
    /\ ctx = platform_io_init
    /\ loc = "idle"
    /\ budget = 0
    /\ iter = "init"
    /\ last = NoInstr
    /\ lastCall = NoCall
    /\ exit_status = -1
    /\ build \in Builds(ZeroMem)

(* draw_line(ctx, x1, y1, x2, y2, pixel_color) is called *)
LineCall ==
    /\ dl.at = "none"
    /\ \E x1 \in LineXs, y1 \in LineYs, x2 \in LineXs, y2 \in LineYs :
          dl' = draw_line_enter(x1, y1, x2, y2, 255)
    /\ UNCHANGED <<ctx, comp>>
    /\ UNCHANGED <<vm, loc, budget, iter, last, lastCall, build, exit_status>>
    /\ UNCHANGED asmvars

(* one iteration of `while (true)` *)
LineIterate ==
    /\ dl.at = "loop"
    /\ ctx' = [ctx EXCEPT !.pixels = SetPixels(ctx.pixels, draw_line_pixel(dl), dl.color)]
    /\ dl' = draw_line_iterate(dl)
    /\ UNCHANGED comp
    /\ UNCHANGED <<vm, loc, budget, iter, last, lastCall, build, exit_status>>
    /\ UNCHANGED asmvars

LineNext == LineCall \/ LineIterate

LineSpec == LineInit /\ [][LineNext]_vars /\ WF_vars(LineNext)
(* --------------------- the compiler on programs ----------------------- *)
Expr == [kind |-> "expr", body |-> <<>>, other |-> <<>>]
While(body) == [kind |-> "while", body |-> body, other |-> <<>>]
If(body) == [kind |-> "if", body |-> body, other |-> <<>>]
IfElse(body, other) == [kind |-> "ifelse", body |-> body, other |-> other]

(* while statements nested n deep, and n while statements in a row *)
RECURSIVE Nested(_)
Nested(n) == IF n = 1 THEN While(<<Expr>>) ELSE While(<<Expr, Nested(n - 1)>>)
InRow(n) == [i \in 1 .. n |-> While(<<Expr>>)]

MaxWhiles == 6

Statements ==
    {Expr, If(<<Nested(1)>>), IfElse(<<Nested(2)>>, <<Nested(1)>>),
     While(<<IfElse(<<Expr>>, <<Nested(1)>>)>>)}
    \cup {Nested(n) : n \in 1 .. MaxWhiles}
    \cup {While(InRow(n)) : n \in 1 .. (MaxWhiles - 1)}

Programs == {<<s>> : s \in Statements} \cup {<<s, t>> : s, t \in Statements}

CompInit ==
    /\ comp \in {[NoComp EXCEPT !.at = "parse", !.tokens = p] : p \in Programs}
    /\ dl = NoLine
    /\ asm = AsmStart
    /\ src = <<>>
    /\ aloc = "idle"
    /\ vm = VmIdle
    /\ ctx = platform_io_init
    /\ loc = "idle"
    /\ budget = 0
    /\ iter = "init"
    /\ last = NoInstr
    /\ lastCall = NoCall
    /\ exit_status = -1
    /\ build \in Builds(ZeroMem)

(* parse_program: one statement of the top level *)
CompStatement ==
    /\ comp.at = "parse"
    /\ comp.tokens # <<>>
    /\ comp' = [parse_statement(comp, Head(comp.tokens)) EXCEPT !.tokens = Tail(comp.tokens)]
    /\ UNCHANGED dl
    /\ UNCHANGED vmvars
    /\ UNCHANGED asmvars

(* parse_program at TOKEN_EOF: the closing HALT *)
CompFinish ==
    /\ comp.at = "parse"
    /\ comp.tokens = <<>>
    /\ comp' = IF comp.output = <<>> \/ comp.output[Len(comp.output)].op # "HALT"
                THEN [emit(comp, "HALT", NoLabel) EXCEPT !.at = "done"]
                ELSE [comp EXCEPT !.at = "done"]
    /\ UNCHANGED dl
    /\ UNCHANGED vmvars
    /\ UNCHANGED asmvars

CompNext == CompStatement \/ CompFinish

CompSpec == CompInit /\ [][CompNext]_vars

(* ============================= properties ============================= *)

(* the number of bytes on the operand stack *)
Depth == VM_STACK_TOP - vm.sp

(* the last iteration executed a RET that closes a CALL whose subroutine  *)
(* left the stack balanced and the two return-address bytes untouched     *)
BalancedReturn ==
    /\ lastCall.returned
    /\ lastCall.intact
    /\ last.op = OP_RET
    /\ last.sp = U16(lastCall.sp - 2)

(* C1: CALL and RET mirror each other: after CALL target, a body that     *)
(* leaves the stack balanced, and RET, PC is the address of the           *)
(* instruction after the 3-byte CALL and SP is what it was before the     *)
(* CALL, for every call site and target                                   *)
C1_CallRetMirror ==
    BalancedReturn =>
        /\ vm.pc = U16(lastCall.site + 3)
        /\ vm.sp = lastCall.sp
        /\ vm.error = VM_OK

C1_Witness ==
    /\ BalancedReturn
    /\ lastCall.site = 510
    /\ vm.pc = 513
    /\ vm.sp = lastCall.sp

(* C2: when IO READ_CHAR is first dispatched with no key available, the   *)
(* dispatcher sets waiting-for-input and leaves PC on the opcode byte of  *)
(* that same IO instruction, so that it is the next instruction fetched   *)
C2_RewindReenters ==
    Pending(last) # -1 =>
        /\ ctx.waiting_for_input
        /\ vm.pc = last.addr
        /\ MemRead(vm.memory, vm.pc) = OP_IO

(* C3: the instruction executed once the pump has latched key k for a     *)
(* blocked IO READ_CHAR pushes exactly the byte k, clears both flags and  *)
(* continues after the IO READ_CHAR instruction                           *)
C3_BlockingReadDelivers ==
    (iter = "exec" /\ last.blocked # -1) =>
        /\ vm.sp = U16(last.sp - 1)
        /\ MemRead(vm.memory, last.sp) = last.key
        /\ ~ctx.waiting_for_input
        /\ ~ctx.key_available
        /\ vm.pc = U16(last.blocked + 2)

(* C4: after pass two, every label operand of a 2-byte slot whose label   *)
(* is defined holds, low byte first, the output position of a definition  *)
(* of that label (operands that start with a letter)                      *)
C4_LabelRoundTrip ==
    aloc \in {"assembled", "exited"} =>
        \A i \in 1 .. Len(asm.seen_refs) :
            LET r == asm.seen_refs[i]
            IN  (/\ isalpha(r.name[1])
                 /\ \E k \in 1 .. Len(asm.seen_defs) : asm.seen_defs[k].name = r.name)
                  => \E k \in 1 .. Len(asm.seen_defs) :
                        /\ asm.seen_defs[k].name = r.name
                        /\ OutRead(asm.output, r.pos) = Lo(asm.seen_defs[k].pos)
                        /\ OutRead(asm.output, r.pos + 1) = Hi(asm.seen_defs[k].pos)

(* C5: when a referenced label is never defined and the image is written, *)
(* the label was reported, the placeholder bytes are zero in the image    *)
(* and the exit code is not zero                                          *)
C5_UndefinedLabelExit ==
    (/\ aloc = "exited"
     /\ asm.file.written
     /\ \E i \in 1 .. Len(asm.seen_refs) :
            \A k \in 1 .. Len(asm.seen_defs) :
                asm.seen_defs[k].name # asm.seen_refs[i].name)
      => /\ asm.errors # <<>>
         /\ \A i \in 1 .. Len(asm.label_refs) :
                find_label(asm, asm.label_refs[i].name) = 0
                  => /\ OutRead(asm.file.bytes, asm.label_refs[i].patch_location) = 0
                     /\ OutRead(asm.file.bytes, asm.label_refs[i].patch_location + 1) = 0
         /\ asm.exit # 0

(* C6 as stated: 65536 pushes succeed, so a push faults with              *)
(* STACK_OVERFLOW only when 65536 bytes are on the stack                  *)
C6_Capacity65536 ==
    vm.error = VM_ERROR_STACK_OVERFLOW => Depth = 65536

(* C6: from the empty stack (SP = 0xFFFF) 65535 consecutive pushes        *)
(* succeed and the 65536th is the first that faults: a PUSH succeeds      *)
(* whenever fewer than 65535 bytes are on the stack, and STACK_OVERFLOW   *)
(* is raised only with exactly 65535 bytes on it                          *)
C6_Capacity65535 ==
    /\ vm.error = VM_ERROR_STACK_OVERFLOW => Depth = 65535
    /\ (iter = "exec" /\ last.op = OP_PUSH /\ VM_STACK_TOP - last.sp < 65535)
         => (vm.error = VM_OK /\ Depth = VM_STACK_TOP - last.sp + 1)
    /\ (iter = "exec" /\ last.op = OP_PUSH /\ VM_STACK_TOP - last.sp = 65535)
         => vm.error = VM_ERROR_STACK_OVERFLOW

C6_Witness ==
    /\ iter = "exec"
    /\ last.op = OP_PUSH
    /\ last.sp = 0
    /\ last.addr = 65534
    /\ vm.error = VM_ERROR_STACK_OVERFLOW
    /\ Depth = 65535

(* the last iteration executed a PUSH that did not fault *)
Pushed == iter = "exec" /\ last.op = OP_PUSH /\ vm.error = VM_OK

(* C7 as stated: SP is the address of the most recently pushed byte: a    *)
(* push from SP = s decrements SP and writes the value at s-1             *)
C7_TopAtSP ==
    Pushed =>
        /\ vm.sp = U16(last.sp - 1)
        /\ MemRead(vm.memory, vm.sp) = last.arg

(* C7: SP is the address of the next free slot: a push from SP = s writes *)
(* the value at address s and then decrements SP to s-1, so the top of a  *)
(* non-empty stack is memory[SP+1]                                        *)
C7_TopAboveSP ==
    Pushed =>
        /\ vm.sp = U16(last.sp - 1)
        /\ MemRead(vm.memory, last.sp) = last.arg
        /\ MemRead(vm.memory, vm.sp + 1) = last.arg

C7_Witness ==
    /\ Pushed
    /\ last.sp = VM_STACK_TOP
    /\ last.arg = 9
    /\ vm.sp = VM_STACK_TOP - 1
    /\ MemRead(vm.memory, VM_STACK_TOP) = 9
    /\ MemRead(vm.memory, vm.sp) # 9

(* the last iteration executed an instruction or host operation that pops *)
(* and found the operand stack empty                                      *)
PoppedEmpty ==
    /\ iter = "exec"
    /\ last.sp = VM_STACK_TOP
    /\ \/ last.op \in PopOps \cup {OP_STORE, OP_JZ, OP_JNZ}
       \/ last.op = OP_IO /\ last.arg \in PopIos

(* C8: every instruction and host operation that pops from an empty stack *)
(* stops the run with the error slot equal to STACK_UNDERFLOW             *)
C8_EmptyPopUnderflows ==
    PoppedEmpty => (vm.error = VM_ERROR_STACK_UNDERFLOW /\ loc = "returned")

(* C9: after a one-byte instruction at 0xFFFF has executed, the next      *)
(* iteration that gets past the pump and the wait check sets              *)
(* INVALID_ADDRESS and stops without fetching an opcode                   *)
C9_PastEndFaults ==
    [][(/\ iter = "exec"
        /\ last.addr = VM_MEMORY_SIZE - 1
        /\ last.op = OP_NOP
        /\ loc = "loop"
        /\ iter' \notin {"quit", "skip"})
          => (/\ iter' = "nofetch"
              /\ vm'.error = VM_ERROR_INVALID_ADDRESS
              /\ loc' = "returned")]_vars

(* C10: IO EXIT stops the run and signals HALT: running is false, the     *)
(* error slot that run_vm returns is HALT, and nothing executes after it  *)
C10_ExitSignalsHalt ==
    (iter = "exec" /\ last.op = OP_IO /\ last.arg = IO_EXIT) =>
        /\ ~vm.running
        /\ vm.error = VM_ERROR_HALT
        /\ loc = "returned"

(* the run has returned because of a fault *)
Faulted == loc = "returned" /\ vm.error \notin {VM_OK, VM_ERROR_HALT}

(* C11: whenever run_vm has returned because of a fault (any error other  *)
(* than OK and HALT), the running flag is false                           *)
C11_FaultClearsRunning ==
    Faulted => ~vm.running

(* C12: once the error slot holds a value other than OK and HALT the      *)
(* engine has left the loop and executes nothing more: PC, SP, memory and *)
(* the error slot keep the values they had at the end of the faulting     *)
(* instruction                                                            *)
C12_FaultStops ==
    /\ [](vm.error \notin {VM_OK, VM_ERROR_HALT} => loc = "returned")
    /\ [][vm.error \notin {VM_OK, VM_ERROR_HALT}
            => (vm' = vm /\ last' = last /\ loc' = loc)]_vars

C12_Witness ==
    /\ Faulted
    /\ vm.error = VM_ERROR_STACK_UNDERFLOW
    /\ last.op = OP_POP
    /\ vm.pc = 1
    /\ MemRead(vm.memory, vm.pc) = OP_HALT

(* ==================== programs run without host events ================ *)

(* operand bytes for the arithmetic, logic, comparison and shift cases *)
AluBytes == {0, 1, 2, 3, 7, 8, 9, 15, 16, 31, 32, 33, 100, 127, 128, 200, 255}

BinaryOps ==
    {OP_ADD, OP_SUB, OP_MUL, OP_DIV, OP_MOD, OP_AND, OP_OR, OP_XOR, OP_SHL,
     OP_SHR, OP_EQ, OP_NEQ, OP_GT, OP_LT, OP_GTE, OP_LTE}
UnaryOps == {OP_NEG, OP_NOT}

(* PUSH a; PUSH b; op; HALT and PUSH a; op; HALT *)
AluImages ==
    {Prog(<<OP_PUSH, a, OP_PUSH, b, op, OP_HALT>>) :
        a \in AluBytes, b \in AluBytes, op \in BinaryOps}
    \cup {Prog(<<OP_PUSH, a, op, OP_HALT>>) : a \in AluBytes, op \in UnaryOps}

(* addresses for the indirect cases; the address with its two bytes       *)
(* exchanged is outside the program and the stack                         *)
IndAddrs == {4660, 528, 65344}
SwapBytes(a) == Lo(a) * 256 + Hi(a)

(* memory[addr] = 77 and memory[SwapBytes(addr)] = 88 around `bytes` *)
IndImage(addr, bytes) ==
    Place(Place(Prog(bytes), addr, <<77>>), SwapBytes(addr), <<88>>)

(* the address pushed high byte first, so that the low byte is on top *)
IndImages ==
    {IndImage(a, <<OP_PUSH, Hi(a), OP_PUSH, Lo(a), OP_LOAD_IND, OP_HALT>>) : a \in IndAddrs}
    \cup {IndImage(a, <<OP_PUSH, 99, OP_PUSH, Hi(a), OP_PUSH, Lo(a), OP_STORE_IND, OP_HALT>>) :
            a \in IndAddrs}

(* CALL sub; STORE 0x0200; HALT; sub: PUSH 42; RET *)
CallPush42 ==
    <<OP_CALL, 7, 0, OP_STORE, 0, 2, OP_HALT, OP_PUSH, 42, OP_RET>>

(* CALL sub; HALT; sub: PUSH 42; STORE 0x0200; RET *)
CallStore42 ==
    <<OP_CALL, 4, 0, OP_HALT, OP_PUSH, 42, OP_STORE, 0, 2, OP_RET>>

SubroutineImages == {Prog(CallPush42), Prog(CallStore42)}

SrcLoop ==
    <<Str(<<"P", "U", "S", "H", " ", "0">>),
      Str(<<"S", "T", "O", "R", "E", " ", "0", "x", "0", "1", "0", "0">>),
      Str(<<"l", "o", "o", "p", ":", " ", "L", "O", "A", "D", " ", "0", "x", "0", "1", "0", "0">>),
      Str(<<"P", "U", "S", "H", " ", "1", "0">>),
      Str(<<"L", "T">>),
      Str(<<"J", "Z", " ", "e", "n", "d">>),
      Str(<<"L", "O", "A", "D", " ", "0", "x", "0", "1", "0", "0">>),
      Str(<<"P", "U", "S", "H", " ", "1">>),
      Str(<<"A", "D", "D">>),
      Str(<<"S", "T", "O", "R", "E", " ", "0", "x", "0", "1", "0", "0">>),
      Str(<<"J", "M", "P", " ", "l", "o", "o", "p">>),
      Str(<<"e", "n", "d", ":", " ", "H", "A", "L", "T">>)>>

(* assemble_file on the lines of a source file: the fgets loop and        *)
(* patch_labels                                                           *)
RECURSIVE assemble_lines(_, _)
assemble_lines(a, lines) ==
    IF lines = <<>> THEN a
    ELSE LET a1 == assemble_line(a, Head(lines))
         IN  IF a1.exit = -1 THEN assemble_lines(a1, Tail(lines)) ELSE a1

assemble_file(lines) == patch_labels(assemble_lines(AsmStart, lines))

(* fwrite(output, 1, output_pos, output_file): the bytes of the image     *)
(* file that are not zero                                                 *)
ImageFile(a) ==
    [i \in {j \in DOMAIN a.output : j < a.output_pos} |-> a.output[i]]

(* the image file of an assembled source, as load_program reads it *)
Assembled(lines) == [base |-> 0, cells |-> ImageFile(assemble_file(lines))]

LoopImage == Assembled(SrcLoop)

(* a 65536-byte image file whose last two bytes are 88 and 77 *)
EndMarked(bytes) == Place(Prog(bytes), 65534, <<88, 77>>)

(* LOAD 0xFFFF; HALT and LOAD 0xFFFE; HALT, and a LOAD whose opcode is    *)
(* the byte at 0xFFFE, so that its operand starts at 0xFFFF               *)
BoundsImages ==
    {EndMarked(<<OP_LOAD, 255, 255, OP_HALT>>),
     EndMarked(<<OP_LOAD, 254, 255, OP_HALT>>),
     Place(Prog(<<OP_JMP, 254, 255>>), 65534, <<OP_LOAD, 77>>)}

(* every byte that is not an opcode, fetched with one byte on the stack,  *)
(* and the byte 0xFF fetched at the last address of memory                *)
InvalidImages ==
    {Prog(<<OP_PUSH, 5, b>>) : b \in 34 .. 255}
      \cup {Place(Prog(<<OP_JMP, 255, 255>>), 65535, <<255>>)}

(* the ids handle_platform_io has a case for *)
IoIds ==
    {IO_EXIT, IO_PRINT_CHAR, IO_READ_CHAR, IO_DRAW_PIXEL, IO_DRAW_LINE, IO_FILL_RECT,
     IO_REFRESH, IO_POLL_KEY, IO_GET_KEY, IO_POLL_MOUSE, IO_GET_MOUSE_X,
     IO_GET_MOUSE_Y, IO_GET_MOUSE_B}

(* PUSH 5; IO id for every id without a case *)
UnknownIoImages == {Prog(<<OP_PUSH, 5, OP_IO, id>>) : id \in (0 .. 255) \ IoIds}

(* PUSH 9; PUSH a; PUSH b; SWAP; POP; POP; HALT *)
SwapImages ==
    {Prog(<<OP_PUSH, 9, OP_PUSH, a, OP_PUSH, b, OP_SWAP, OP_POP, OP_POP, OP_HALT>>) :
        a \in AluBytes, b \in AluBytes}

JumpTargets == {32, 4660, 65280}

(* PUSH 9; PUSH v; JZ/JNZ target; HALT and PUSH 9; JMP target; HALT, with *)
(* a HALT at the target                                                   *)
JumpImages ==
    {Place(Prog(<<OP_PUSH, 9, OP_PUSH, v, op, Lo(t), Hi(t), OP_HALT>>), t, <<OP_HALT>>) :
        v \in AluBytes, op \in {OP_JZ, OP_JNZ}, t \in JumpTargets}
      \cup {Place(Prog(<<OP_PUSH, 9, OP_JMP, Lo(t), Hi(t), OP_HALT>>), t, <<OP_HALT>>) :
               t \in JumpTargets}

(* the operands pushed in order, then IO id and HALT *)
DrawImage(id, operands) ==
    Prog([i \in 1 .. 2 * Len(operands) |->
             IF i % 2 = 1 THEN OP_PUSH ELSE operands[i \div 2]]
         \o <<OP_IO, id, OP_HALT>>)

(* pixels, lines and rectangles on, across and beyond the last row (239)  *)
(* and the last column a byte can name (255)                              *)
DrawImages ==
    {DrawImage(IO_DRAW_PIXEL, <<x, y, 200>>) : x \in {0, 255}, y \in {0, 239, 240, 255}}
      \cup {DrawImage(IO_DRAW_LINE, l \o <<200>>) :
               l \in {<<0, 235, 5, 250>>, <<250, 245, 255, 238>>, <<3, 3, 3, 3>>,
                      <<10, 255, 0, 239>>, <<0, 0, 7, 2>>, <<9, 250, 2, 250>>}}
      \cup {DrawImage(IO_FILL_RECT, <<x, y, w, h, 200>>) :
               x \in {0, 254}, y \in {0, 238, 240, 255}, w \in {0, 3}, h \in {0, 3, 255}}

RunImages ==
    AluImages \cup IndImages \cup SubroutineImages \cup {LoopImage} \cup BoundsImages
      \cup InvalidImages \cup UnknownIoImages \cup SwapImages
      \cup JumpImages \cup DrawImages

RunInit == InitWith(RunImages, 0)

(* without events the pump never returns false and nothing waits *)
RunNext == Execute

(* the loop of run_vm runs on the one thread of the process and is never  *)
(* suspended: an iteration that can be taken is taken                     *)
RunSpec == RunInit /\ [][RunNext]_vars /\ WF_vars(RunNext)

(* ------------------------- properties, continued ---------------------- *)

(* the last iteration executed DIV or MOD on two operands, the divisor    *)
(* (top of stack) being zero                                              *)
DividedByZero ==
    /\ iter = "exec"
    /\ last.op \in {OP_DIV, OP_MOD}
    /\ last.sp <= VM_STACK_TOP - 2
    /\ last.top = 0

(* C13: DIV and MOD with a zero divisor set DIVISION_BY_ZERO, push        *)
(* nothing, leave SP where the two pops put it, and the run stops before  *)
(* the following instruction                                              *)
C13_DivideByZero ==
    DividedByZero =>
        /\ vm.error = VM_ERROR_DIVISION_BY_ZERO
        /\ vm.sp = last.sp + 2
        /\ MemRead(vm.memory, last.sp + 1) = last.top
        /\ MemRead(vm.memory, last.sp + 2) = last.under
        /\ vm.pc = last.addr + 1
        /\ loc = "returned"

C13_Witness ==
    /\ DividedByZero
    /\ last.op = OP_MOD
    /\ last.under = 7
    /\ vm.error = VM_ERROR_DIVISION_BY_ZERO
    /\ vm.sp = VM_STACK_TOP
    /\ MemRead(vm.memory, vm.pc) = OP_HALT

(* the address that the two bytes on top of the stack spell when the top  *)
(* byte (first pop) is the low byte and the one under it the high byte    *)
AddrOnStack == last.top + 256 * last.under

(* C14: LOAD_IND and STORE_IND take the first pop (top of stack) as the   *)
(* low byte and the second pop as the high byte of the address; LOAD_IND  *)
(* pushes memory[addr], STORE_IND pops one more byte and writes it to     *)
(* memory[addr]                                                           *)
C14_IndirectByteOrder ==
    /\ (iter = "exec" /\ last.op = OP_LOAD_IND /\ last.sp <= VM_STACK_TOP - 2)
         => /\ vm.error = VM_OK
            /\ vm.sp = last.sp + 1
            /\ MemRead(vm.memory, last.sp + 2) = MemRead(vm.memory, AddrOnStack)
    /\ (iter = "exec" /\ last.op = OP_STORE_IND /\ last.sp <= VM_STACK_TOP - 3)
         => /\ vm.error = VM_OK
            /\ vm.sp = last.sp + 3
            /\ MemRead(vm.memory, AddrOnStack) = last.third

(* bit i of byte x *)
Bit(x, i) == (x \div Pow2(i)) % 2

(* r is the result byte that the instruction set defines for `opcode` on  *)
(* the left operand a and the right operand b (one-operand cases: a)      *)
IsAluResult(opcode, a, b, r) ==
    CASE opcode = OP_ADD -> r = (a + b) % 256
      [] opcode = OP_SUB -> r = (a - b) % 256
      [] opcode = OP_MUL -> r = (a * b) % 256
      [] opcode = OP_DIV -> r * b <= a /\ a < (r + 1) * b
      [] opcode = OP_MOD -> r < b /\ \E q \in 0 .. 255 : q * b + r = a
      [] opcode = OP_AND -> \A i \in 0 .. 7 : Bit(r, i) = 1 <=> (Bit(a, i) = 1 /\ Bit(b, i) = 1)
      [] opcode = OP_OR -> \A i \in 0 .. 7 : Bit(r, i) = 1 <=> (Bit(a, i) = 1 \/ Bit(b, i) = 1)
      [] opcode = OP_XOR -> \A i \in 0 .. 7 : Bit(r, i) = 1 <=> (Bit(a, i) # Bit(b, i))
      [] opcode = OP_EQ -> r = IF a = b THEN 1 ELSE 0
      [] opcode = OP_NEQ -> r = IF a # b THEN 1 ELSE 0
      [] opcode = OP_GT -> r = IF a > b THEN 1 ELSE 0
      [] opcode = OP_LT -> r = IF a < b THEN 1 ELSE 0
      [] opcode = OP_GTE -> r = IF a >= b THEN 1 ELSE 0
      [] opcode = OP_LTE -> r = IF a <= b THEN 1 ELSE 0
      [] opcode = OP_NEG -> r = (256 - a) % 256
      [] opcode = OP_NOT -> r = 255 - a

(* C15: PUSH a; PUSH b; OP replaces the two operands by the one result    *)
(* byte of a OP b, a (pushed first) being the left operand: sums,         *)
(* differences, products and bitwise results mod 256, quotient and        *)
(* remainder for a non-zero divisor, 1 or 0 for the comparisons; NEG and  *)
(* NOT replace their operand by (256 - a) mod 256 and 255 - a             *)
C15_AluReference ==
    /\ (/\ iter = "exec"
        /\ last.op \in BinaryOps \ {OP_SHL, OP_SHR}
        /\ last.sp <= VM_STACK_TOP - 2
        /\ (last.op \in {OP_DIV, OP_MOD} => last.top # 0))
         => /\ vm.error = VM_OK
            /\ vm.sp = last.sp + 1
            /\ MemRead(vm.memory, last.sp + 2) \in 0 .. 255
            /\ IsAluResult(last.op, last.under, last.top, MemRead(vm.memory, last.sp + 2))
    /\ (iter = "exec" /\ last.op \in UnaryOps /\ last.sp <= VM_STACK_TOP - 1)
         => /\ vm.error = VM_OK
            /\ vm.sp = last.sp
            /\ MemRead(vm.memory, last.sp + 1) \in 0 .. 255
            /\ IsAluResult(last.op, last.top, 0, MemRead(vm.memory, last.sp + 1))

C15_Witness ==
    /\ iter = "exec"
    /\ last.op = OP_SUB
    /\ last.under = 3
    /\ last.top = 200
    /\ vm.sp = VM_STACK_TOP - 1
    /\ MemRead(vm.memory, VM_STACK_TOP) = 59

(* C16: SHL and SHR push a result masked to 8 bits, and for every shift   *)
(* count b in 8..255 the result is 0                                      *)
C16_ShiftBeyondWidth ==
    (iter = "exec" /\ last.op \in {OP_SHL, OP_SHR} /\ last.sp <= VM_STACK_TOP - 2)
      => /\ vm.error = VM_OK
         /\ vm.sp = last.sp + 1
         /\ MemRead(vm.memory, last.sp + 2) \in 0 .. 255
         /\ last.top >= 8 => MemRead(vm.memory, last.sp + 2) = 0

(* C17: an iteration in which the host, after the pump, reports waiting   *)
(* for input (waiting flag set, no key available) fetches nothing: every  *)
(* fetch happened with the host not waiting, and a skipped iteration      *)
(* leaves PC, SP, BP, memory, the error slot and the running flag as they *)
(* were, the host state being the pump's result on the polled events      *)
C17_WaitingSkipsFetch ==
    /\ [](iter = "exec" => ~(last.wait /\ ~last.keyav))
    /\ [][iter' = "skip" =>
            /\ vm' = vm
            /\ loc' = loc
            /\ last' = last
            /\ ctx'.waiting_for_input /\ ~ctx'.key_available
            /\ \E batch \in Batches(MaxEvents) :
                   ctx' = platform_io_process_events(ctx, batch).ctx]_vars

(* a skipped iteration after a blocking read, in which the pump took a    *)
(* mouse event                                                            *)
C17_Witness ==
    /\ iter = "skip"
    /\ ctx.waiting_for_input /\ ~ctx.key_available
    /\ ctx.mouse_event
    /\ last.op = OP_IO /\ last.arg = IO_READ_CHAR
    /\ vm.running /\ vm.error = VM_OK

(* C18: when the pump at the head of an iteration returns false, the      *)
(* engine clears running and leaves the loop: that iteration fetches and  *)
(* executes nothing (PC, SP, BP, memory and the record of the last        *)
(* executed instruction are as before), no later iteration runs, and the  *)
(* error slot keeps its value, which is OK                                *)
C18_ShutdownLeavesLoop ==
    /\ [](iter = "quit" => (loc = "returned" /\ ~vm.running /\ vm.error = VM_OK))
    /\ [][iter' = "quit" =>
            /\ vm' = [vm EXCEPT !.running = FALSE]
            /\ vm'.error = vm.error
            /\ last' = last
            /\ lastCall' = lastCall]_vars
    /\ [][iter = "quit" => (vm' = vm /\ last' = last /\ loc' = loc)]_vars

(* a window close after at least one instruction has run *)
C18_Witness ==
    /\ iter = "quit"
    /\ loc = "returned"
    /\ ~vm.running
    /\ vm.error = VM_OK
    /\ last.op # -1
    /\ vm.pc > 0

(* ------------------------- the two scenarios -------------------------- *)
(* the subroutine programs and the counting loop alone, run to the end:   *)
(* run_vm's while loop takes its next iteration as long as it has not     *)
(* left the loop, hence the weak fairness on the iteration                *)
(* the one-byte image 01, and HALT with a byte on the stack *)
HaltImages == {Prog(<<OP_HALT>>), Prog(<<OP_PUSH, 5, OP_HALT>>)}

ScenarioImages == SubroutineImages \cup {LoopImage} \cup HaltImages

ScenarioInit == InitWith(ScenarioImages, 0)

ScenarioSpec == ScenarioInit /\ [][RunNext]_vars /\ WF_vars(RunNext)
(* --------------------- one instruction of each kind ------------------- *)
(* six pushes, then one instruction of each kind, then HALT; jumps and    *)
(* CALL go to a HALT at 0x0020, RET returns to a HALT at 0x0605;           *)
(* READ_CHAR is among the images of the blocking read                     *)
SixPushes ==
    <<OP_PUSH, 1, OP_PUSH, 2, OP_PUSH, 3, OP_PUSH, 4, OP_PUSH, 5, OP_PUSH, 6>>

PlainOps ==
    {OP_NOP, OP_POP, OP_DUP, OP_SWAP, OP_DIV, OP_MOD, OP_LOAD_IND, OP_STORE_IND}
      \cup BinaryOps \cup UnaryOps

AccountImages ==
    {Prog(SixPushes \o <<op, OP_HALT>>) : op \in PlainOps}
      \cup {Prog(SixPushes \o <<op, 0, 3, OP_HALT>>) : op \in {OP_LOAD, OP_STORE}}
      \cup {Place(Prog(SixPushes \o <<op, 32, 0, OP_HALT>>), 32, <<OP_HALT>>) :
               op \in {OP_JMP, OP_JZ, OP_JNZ, OP_CALL}}
      \cup {Place(Prog(SixPushes \o <<OP_RET>>), 1541, <<OP_HALT>>)}
      \cup {Prog(SixPushes \o <<OP_IO, id, OP_HALT>>) : id \in IoIds \ {IO_READ_CHAR}}

(* GET_KEY; NOP; POLL_KEY; POLL_KEY; HALT *)
(* and READ_CHAR; NOP; GET_KEY; NOP; HALT *)
KeyImages ==
    {Prog(<<OP_IO, IO_GET_KEY, OP_NOP, OP_IO, IO_POLL_KEY, OP_IO, IO_POLL_KEY, OP_HALT>>),
     Prog(<<OP_IO, IO_READ_CHAR, OP_NOP, OP_IO, IO_GET_KEY, OP_NOP, OP_HALT>>)}

AccountInit == InitWith(Images \cup AccountImages \cup KeyImages, MaxEvents)

AccountSpec == AccountInit /\ [][Next]_vars
(* the program in memory is `bytes`, loaded at address 0 *)
Runs(bytes) == \A i \in 1 .. Len(bytes) : MemRead(vm.memory, i - 1) = bytes[i]

Stopped == loc = "returned"

(* C19 as stated: CALL sub; STORE 0x0200; HALT; sub: PUSH 42; RET stops   *)
(* with HALT and memory[0x0200] = 42                                      *)
C19_RoundTrip42 ==
    (Runs(CallPush42) /\ Stopped)
      => (vm.error = VM_ERROR_HALT /\ MemRead(vm.memory, 512) = 42)

(* C19: a routine that pushes 42, stores it to 0x0200 and RETs with the   *)
(* stack as CALL left it returns to the HALT after the CALL: the run      *)
(* stops with HALT, memory[0x0200] = 42 and an empty stack.  A routine    *)
(* that RETs with the 42 still on the stack returns to 0x2A00 instead:    *)
(* the STORE after the CALL never runs, memory[0x0200] stays 0 and the    *)
(* run stops with INVALID_OPCODE                                          *)
C19_SubroutineStores42 ==
    /\ (Runs(CallStore42) /\ iter = "init")
         ~> (Runs(CallStore42) /\ Stopped /\ vm.error = VM_ERROR_HALT
             /\ MemRead(vm.memory, 512) = 42 /\ vm.sp = VM_STACK_TOP)
    /\ []((Runs(CallStore42) /\ Stopped)
            => (vm.error = VM_ERROR_HALT /\ MemRead(vm.memory, 512) = 42))
    /\ (Runs(CallPush42) /\ iter = "init")
         ~> (Runs(CallPush42) /\ Stopped /\ vm.error = VM_ERROR_INVALID_OPCODE)
    /\ [](Runs(CallPush42)
            => /\ MemRead(vm.memory, 512) = 0
               /\ vm.error \in {VM_OK, VM_ERROR_INVALID_OPCODE}
               /\ (iter = "exec" /\ last.op = OP_RET) => vm.pc = 42 * 256
               /\ iter = "exec" => last.op # OP_STORE)

(* the storing routine has returned and the run has halted *)
C19_Witness ==
    /\ Runs(CallStore42)
    /\ Stopped
    /\ vm.error = VM_ERROR_HALT
    /\ MemRead(vm.memory, 512) = 42
    /\ last.op = OP_HALT /\ last.addr = 3
    /\ vm.sp = VM_STACK_TOP

(* the bytes the loop program assembles to: loop is address 5, end is 26  *)
LoopCode ==
    <<OP_PUSH, 0, OP_STORE, 0, 1,
      OP_LOAD, 0, 1, OP_PUSH, 10, OP_LT, OP_JZ, 26, 0,
      OP_LOAD, 0, 1, OP_PUSH, 1, OP_ADD, OP_STORE, 0, 1, OP_JMP, 5, 0,
      OP_HALT>>

LoopDone ==
    /\ Stopped
    /\ vm.error = VM_ERROR_HALT
    /\ MemRead(vm.memory, 256) = 10
    /\ vm.sp = VM_STACK_TOP

(* C20: the counting loop (PUSH 0, STORE 0x0100, loop: LOAD 0x0100,       *)
(* PUSH 10, LT, JZ end, LOAD 0x0100, PUSH 1, ADD, STORE 0x0100, JMP loop, *)
(* end: HALT, one instruction per source line) assembles to LoopCode,     *)
(* and its run, with no host shutdown, eventually stops with error HALT,  *)
(* memory[0x0100] = 10 and an empty stack; it never stops any other way,  *)
(* and the counter never exceeds 10                                       *)
C20_LoopCountsToTen ==
    /\ \A i \in 0 .. 63 :
           MemRead(LoopImage, i) = IF i < Len(LoopCode) THEN LoopCode[i + 1] ELSE 0
    /\ (Runs(LoopCode) /\ iter = "init") ~> (Runs(LoopCode) /\ LoopDone)
    /\ []((Runs(LoopCode) /\ Stopped) => LoopDone)
    /\ [](Runs(LoopCode) => MemRead(vm.memory, 256) <= 10)

(* the loop has counted to ten and the final HALT at `end` has run *)
C20_Witness ==
    /\ Runs(LoopCode)
    /\ LoopDone
    /\ last.op = OP_HALT /\ last.addr = 26
    /\ vm.pc = 27
    /\ ~vm.running

(* C21: the exit code of the engine process is 0 when the run ended with  *)
(* HALT or with host shutdown, and non-zero when it ended with a fault    *)
C21_ExitCodeTellsOutcome ==
    exit_status # -1
      => (exit_status = 0 <=> vm.error \in {VM_OK, VM_ERROR_HALT})

(* the 16-bit operand of the instruction at last.addr *)
Operand16 ==
    MemRead(vm.memory, U16(last.addr + 1)) + 256 * MemRead(vm.memory, U16(last.addr + 2))

Loaded == iter = "exec" /\ last.op = OP_LOAD /\ last.sp # 0

(* C22 as stated: LOAD 0xFFFF succeeds and pushes the last byte of        *)
(* memory, and LOAD 0xFFFE faults with INVALID_ADDRESS                    *)
C22_LoadFFFEFaults ==
    (Loaded /\ last.addr < 65533)
      => /\ Operand16 = 65535
              => (vm.error = VM_OK /\ vm.sp = last.sp - 1
                  /\ MemRead(vm.memory, last.sp) = MemRead(vm.memory, 65535))
         /\ Operand16 = 65534 => vm.error = VM_ERROR_INVALID_ADDRESS

(* C22: LOAD reads one byte, so every 16-bit operand is a valid address:  *)
(* LOAD 0xFFFF and LOAD 0xFFFE both succeed and push memory[addr]; a LOAD *)
(* faults with INVALID_ADDRESS exactly when its own operand cannot be     *)
(* read, which is when the opcode is the byte at 0xFFFE                   *)
C22_LoadReadsOneByte ==
    Loaded
      => IF last.addr = 65534
         THEN vm.error = VM_ERROR_INVALID_ADDRESS
         ELSE /\ vm.error = VM_OK
              /\ vm.sp = last.sp - 1
              /\ vm.pc = U16(last.addr + 3)
              /\ MemRead(vm.memory, last.sp) = MemRead(vm.memory, Operand16)

(* LOAD 0xFFFE has pushed the byte at 0xFFFE *)
C22_Witness ==
    /\ Loaded
    /\ last.addr = 0
    /\ Operand16 = 65534
    /\ vm.error = VM_OK
    /\ last.sp = VM_STACK_TOP
    /\ MemRead(vm.memory, VM_STACK_TOP) = 88

(* the byte the next fetch reads *)
NextOpcode == MemRead(vm.memory, vm.pc)

(* C23: every byte in 0x22..0xFF fetched as an opcode sets error to       *)
(* INVALID_OPCODE and stops the run; SP, BP, memory, the running flag and *)
(* the host context are unchanged and PC has advanced by exactly one      *)
C23_InvalidOpcodeStops ==
    /\ [][(loc = "loop" /\ iter' = "exec" /\ NextOpcode \in 34 .. 255)
            => /\ vm' = [vm EXCEPT !.pc = U16(vm.pc + 1),
                                   !.error = VM_ERROR_INVALID_OPCODE]
               /\ ctx' = ctx
               /\ loc' = "returned"]_vars
    /\ []((iter = "exec" /\ last.op \in 34 .. 255)
            => (Stopped /\ vm.error = VM_ERROR_INVALID_OPCODE))

(* the byte 0xC8 was fetched at address 2 with one byte on the stack *)
C23_Witness ==
    /\ iter = "exec"
    /\ last.op = 200 /\ last.addr = 2
    /\ vm.pc = 3
    /\ vm.sp = VM_STACK_TOP - 1 /\ last.sp = vm.sp
    /\ vm.error = VM_ERROR_INVALID_OPCODE
    /\ Stopped

(* C24: an IO instruction whose id is none of 0x00, 0x01, 0x02,           *)
(* 0x10..0x13, 0x20..0x25 leaves the stack (SP and memory) and the host   *)
(* context as they were, sets the error slot to PLATFORM_IO (the host-I/O *)
(* error) and stops the run                                               *)
C24_UnknownIoFaults ==
    /\ IoIds = {0, 1, 2} \cup (16 .. 19) \cup (32 .. 37)
    /\ [][(/\ loc = "loop" /\ iter' = "exec"
           /\ NextOpcode = OP_IO
           /\ MemRead(vm.memory, U16(vm.pc + 1)) \notin IoIds)
            => /\ vm' = [vm EXCEPT !.pc = U16(vm.pc + 2),
                                   !.error = VM_ERROR_PLATFORM_IO]
               /\ ctx' = ctx
               /\ loc' = "returned"]_vars
    /\ []((iter = "exec" /\ last.op = OP_IO /\ last.arg \notin IoIds)
            => (Stopped /\ vm.error = VM_ERROR_PLATFORM_IO /\ vm.sp = last.sp))

(* IO 0x14 was executed with one byte on the stack *)
C24_Witness ==
    /\ iter = "exec"
    /\ last.op = OP_IO /\ last.arg = 20
    /\ vm.error = VM_ERROR_PLATFORM_IO
    /\ Stopped
    /\ vm.sp = VM_STACK_TOP - 1
    /\ MemRead(vm.memory, VM_STACK_TOP) = 5
    /\ ctx = platform_io_init

(* C25: executing HALT sets error to HALT and running to false, advances  *)
(* PC by one and leaves SP, BP, memory and the host context unchanged; no *)
(* instruction is executed after it; and the run of the image 01 ends     *)
(* with HALT, PC = 1 and SP = 0xFFFF                                      *)
C25_HaltIsCleanStop ==
    /\ [][(loc = "loop" /\ iter' = "exec" /\ NextOpcode = OP_HALT)
            => /\ vm' = [vm EXCEPT !.pc = U16(vm.pc + 1),
                                   !.error = VM_ERROR_HALT,
                                   !.running = FALSE]
               /\ ctx' = ctx
               /\ loc' = "returned"]_vars
    /\ [][(iter = "exec" /\ last.op = OP_HALT) => (vm' = vm /\ last' = last)]_vars
    /\ []((iter = "exec" /\ last.op = OP_HALT) => Stopped)
    /\ (iter = "init" /\ vm.memory = Prog(<<OP_HALT>>))
         ~> (/\ Stopped /\ vm.error = VM_ERROR_HALT /\ ~vm.running
             /\ vm.pc = 1 /\ vm.sp = VM_STACK_TOP
             /\ vm.memory = Prog(<<OP_HALT>>))

(* the image 01 has run *)
C25_Witness ==
    /\ vm.memory = Prog(<<OP_HALT>>)
    /\ iter = "exec" /\ last.op = OP_HALT /\ last.addr = 0
    /\ Stopped
    /\ vm.error = VM_ERROR_HALT /\ ~vm.running
    /\ vm.pc = 1 /\ vm.sp = VM_STACK_TOP

(* bytes pushed minus bytes popped by one instruction, as the instruction *)
(* set documents it; READ_CHAR pushes its byte only when it delivers      *)
StackEffect(op, id, delivers) ==
    CASE op \in {OP_NOP, OP_HALT, OP_SWAP, OP_NEG, OP_NOT, OP_JMP} -> 0
      [] op \in {OP_PUSH, OP_DUP, OP_LOAD} -> 1
      [] op \in {OP_POP, OP_STORE, OP_LOAD_IND, OP_JZ, OP_JNZ, OP_DIV, OP_MOD} -> -1
      [] op \in BinaryOps -> -1
      [] op = OP_STORE_IND -> -3
      [] op = OP_CALL -> 2
      [] op = OP_RET -> -2
      [] op = OP_IO ->
           CASE id \in {IO_EXIT, IO_REFRESH} -> 0
             [] id = IO_PRINT_CHAR -> -1
             [] id = IO_READ_CHAR -> IF delivers THEN 1 ELSE 0
             [] id = IO_DRAW_PIXEL -> -3
             [] id \in {IO_DRAW_LINE, IO_FILL_RECT} -> -5
             [] id \in {IO_POLL_KEY, IO_GET_KEY, IO_POLL_MOUSE, IO_GET_MOUSE_B} -> 1
             [] id \in {IO_GET_MOUSE_X, IO_GET_MOUSE_Y} -> 2

NoFault == vm.error \in {VM_OK, VM_ERROR_HALT}

(* C26: every instruction that executes without a fault moves SP by       *)
(* exactly (bytes pushed - bytes popped), host-I/O operations included,   *)
(* so that for a fault-free sequence the final SP is the initial SP minus *)
(* the sum; for six pushes, one instruction and the HALT it reaches, the  *)
(* final SP is 0xFFFF - 6 - (pushes - pops of the instruction)            *)
C26_StackAccounting ==
    /\ (iter = "exec" /\ NoFault)
         => vm.sp = last.sp - StackEffect(last.op, last.arg, last.wait /\ last.keyav)
    /\ (/\ Runs(SixPushes) /\ Stopped /\ iter = "exec" /\ NoFault
        /\ last.addr >= 12
        /\ last.op = OP_HALT \/ (last.op = OP_IO /\ last.arg = IO_EXIT))
         => vm.sp = VM_STACK_TOP - 6
                      - StackEffect(MemRead(vm.memory, 12), MemRead(vm.memory, 13), TRUE)

(* DRAW_LINE has popped its five operands *)
C26_Witness ==
    /\ Runs(SixPushes)
    /\ iter = "exec" /\ NoFault
    /\ last.op = OP_IO /\ last.arg = IO_DRAW_LINE
    /\ last.sp = VM_STACK_TOP - 6
    /\ vm.sp = VM_STACK_TOP - 1

(* the bytes on the stack after the last instruction, from the top *)
Top == MemRead(vm.memory, U16(vm.sp + 1))
Under == MemRead(vm.memory, U16(vm.sp + 2))
Third == MemRead(vm.memory, U16(vm.sp + 3))

SwapProgram ==
    /\ Runs(<<OP_PUSH, 9, OP_PUSH>>)
    /\ MemRead(vm.memory, 4) = OP_PUSH
    /\ \A i \in 1 .. 4 :
           MemRead(vm.memory, 5 + i) = <<OP_SWAP, OP_POP, OP_POP, OP_HALT>>[i]

(* C27: SWAP exchanges the two top bytes and nothing else; after PUSH a;  *)
(* PUSH b; SWAP the first POP removes a, the second POP removes b, and    *)
(* the byte below them is still there                                     *)
C27_SwapExchangesTop ==
    /\ (iter = "exec" /\ last.op = OP_SWAP /\ last.sp <= VM_STACK_TOP - 2)
         => /\ vm.error = VM_OK
            /\ vm.sp = last.sp
            /\ Top = last.under /\ Under = last.top
            /\ last.sp <= VM_STACK_TOP - 3 => Third = last.third
    /\ (SwapProgram /\ iter = "exec" /\ last.op = OP_POP)
         => /\ vm.error = VM_OK
            /\ last.addr = 7
                 => (/\ last.top = MemRead(vm.memory, 3)
                     /\ vm.sp = VM_STACK_TOP - 2
                     /\ Top = MemRead(vm.memory, 5) /\ Under = 9)
            /\ last.addr = 8
                 => (/\ last.top = MemRead(vm.memory, 5)
                     /\ vm.sp = VM_STACK_TOP - 1
                     /\ Top = 9)

(* a = 3, b = 200: the second POP has removed 200 *)
C27_Witness ==
    /\ SwapProgram
    /\ MemRead(vm.memory, 3) = 3 /\ MemRead(vm.memory, 5) = 200
    /\ iter = "exec" /\ last.op = OP_POP /\ last.addr = 8
    /\ last.top = 200
    /\ vm.sp = VM_STACK_TOP - 1
    /\ Top = 9

(* the 16-bit operand of the instruction about to be fetched *)
NextOperand16 ==
    MemRead(vm.memory, U16(vm.pc + 1)) + 256 * MemRead(vm.memory, U16(vm.pc + 2))

Fetching(op) ==
    loc = "loop" /\ iter' = "exec" /\ NextOpcode = op /\ U16(vm.pc + 1) < VM_MEMORY_SIZE - 1

(* C28: JZ and JNZ on a stack that is not empty pop exactly one byte v,   *)
(* taken or not; PC becomes the operand when the condition holds (v = 0   *)
(* for JZ, v # 0 for JNZ) and the address past the operand otherwise; JMP *)
(* sets PC to its operand and leaves the stack as it was; none of them    *)
(* changes anything else                                                  *)
C28_JumpsPopOneByte ==
    /\ [][(Fetching(OP_JZ) /\ vm.sp < VM_STACK_TOP)
            => vm' = [vm EXCEPT
                        !.sp = vm.sp + 1,
                        !.pc = IF MemRead(vm.memory, vm.sp + 1) = 0
                               THEN NextOperand16 ELSE U16(vm.pc + 3)]]_vars
    /\ [][(Fetching(OP_JNZ) /\ vm.sp < VM_STACK_TOP)
            => vm' = [vm EXCEPT
                        !.sp = vm.sp + 1,
                        !.pc = IF MemRead(vm.memory, vm.sp + 1) # 0
                               THEN NextOperand16 ELSE U16(vm.pc + 3)]]_vars
    /\ [][Fetching(OP_JMP) => vm' = [vm EXCEPT !.pc = NextOperand16]]_vars

(* JZ 0x1234 on the byte 7 was not taken and has popped the 7 *)
C28_Witness ==
    /\ iter = "exec" /\ last.op = OP_JZ /\ last.addr = 4
    /\ Operand16 = 4660
    /\ last.top = 7 /\ last.under = 9
    /\ vm.pc = 7
    /\ vm.sp = VM_STACK_TOP - 1
    /\ Top = 9
    /\ vm.error = VM_OK

(* the positions of the key events in a batch of polled events *)
Keys(batch) == {i \in 1 .. Len(batch) : batch[i].type = "key"}

Latest(S) == CHOOSE i \in S : \A j \in S : j <= i

(* the pump of the iteration that fetched took `batch`: the latch holds   *)
(* the low byte of the last key event, or what it held before             *)
PumpLatched(batch) ==
    /\ Len(batch) = budget - budget'
    /\ last'.keyav = (ctx.key_available \/ Keys(batch) # {})
    /\ last'.key = IF Keys(batch) = {} THEN ctx.last_key
                   ELSE batch[Latest(Keys(batch))].sym % 256

IoDone(id) == iter = "exec" /\ last.op = OP_IO /\ last.arg = id /\ last.sp # 0

(* C29: the pump latches the low byte of the latest key event and sets    *)
(* key-available, and never clears it; GET_KEY pushes the latched byte    *)
(* and clears key-available; POLL_KEY pushes 1 when key-available is set  *)
(* and 0 otherwise and leaves it; key-available is cleared only by        *)
(* GET_KEY and READ_CHAR and set only by a pump that took events.  Hence  *)
(* POLL_KEY after GET_KEY with no key event in between pushes 0, and      *)
(* POLL_KEY after a latched key with no GET_KEY or READ_CHAR in between   *)
(* pushes 1                                                               *)
C29_KeyLatch ==
    /\ [][(loc = "loop" /\ iter' = "exec")
            => \E batch \in Batches(MaxEvents) : PumpLatched(batch)]_vars
    /\ [](IoDone(IO_GET_KEY)
            => /\ Top = last.key
               /\ vm.sp = last.sp - 1
               /\ ~ctx.key_available
               /\ ctx.last_key = last.key)
    /\ [](IoDone(IO_POLL_KEY)
            => /\ Top = IF last.keyav THEN 1 ELSE 0
               /\ vm.sp = last.sp - 1
               /\ ctx.key_available = last.keyav)
    /\ [][(ctx.key_available /\ ~ctx'.key_available)
            => (iter' = "exec" /\ last'.op = OP_IO
                /\ last'.arg \in {IO_GET_KEY, IO_READ_CHAR})]_vars
    /\ [][(~ctx.key_available /\ ctx'.key_available) => budget' < budget]_vars
    /\ [][(IoDone(IO_GET_KEY) /\ iter' = "exec" /\ last'.op = OP_IO
           /\ last'.arg = IO_POLL_KEY /\ budget' = budget)
            => MemRead(vm'.memory, U16(vm'.sp + 1)) = 0]_vars

(* key 322 arrived, GET_KEY pushed its low byte 66, and the POLL_KEY      *)
(* after it, with no event in between, pushed 0                           *)
C29_Witness ==
    /\ IoDone(IO_POLL_KEY)
    /\ last.addr = 4
    /\ Top = 0 /\ Under = 66
    /\ ctx.last_key = 66
    /\ ~ctx.key_available
    /\ vm.error = VM_OK

(* the framebuffer cells the step has written or changed *)
Changed == {i \in DOMAIN ctx'.pixels : i \notin DOMAIN ctx.pixels \/ ctx'.pixels[i] # ctx.pixels[i]}

(* the operand bytes of the instruction about to run, the top first *)
Arg(k) == MemRead(vm.memory, U16(vm.sp + k))

Drawing(id, n) ==
    /\ loc = "loop" /\ iter' = "exec"
    /\ NextOpcode = OP_IO /\ MemRead(vm.memory, U16(vm.pc + 1)) = id
    /\ vm.sp <= VM_STACK_TOP - n

(* the cells of the columns xs and rows ys that lie in the 320x240 buffer *)
Cells(xs, ys) ==
    {y * VM_DISPLAY_WIDTH + x :
        x \in {c \in xs : c >= 0 /\ c < 320}, y \in {r \in ys : r >= 0 /\ r < 240}}

Between(a, b) == IF a <= b THEN a .. b ELSE b .. a

(* the step wrote the colour of Arg(1) to the cells `must`, wrote nothing *)
(* outside `may`, kept every other cell, and the operation returned OK    *)
Drew(must, may, n) ==
    /\ Changed \subseteq may
    /\ \A i \in must : i \in DOMAIN ctx'.pixels /\ ctx'.pixels[i] = <<255, Arg(1), Arg(1), Arg(1)>>
    /\ \A i \in DOMAIN ctx.pixels : i \in DOMAIN ctx'.pixels
    /\ vm'.error = VM_OK /\ loc' = "loop"
    /\ vm'.sp = vm.sp + n

(* C30: DRAW_PIXEL, DRAW_LINE and FILL_RECT write framebuffer cells only  *)
(* at indexes 0 .. 320*240-1, for (x, y) with 0 <= x < 320 and            *)
(* 0 <= y < 240: a pixel writes its cell when it is inside and nothing    *)
(* otherwise, a rectangle writes exactly its part inside, a line writes   *)
(* its end points when they are inside and nothing outside the part of    *)
(* its bounding box that is inside; and the operation returns OK          *)
C30_DrawingIsClipped ==
    /\ [](DOMAIN ctx.pixels \subseteq 0 .. (VM_DISPLAY_WIDTH * VM_DISPLAY_HEIGHT - 1))
    /\ [][Drawing(IO_DRAW_PIXEL, 3)
            => Drew(Cells({Arg(3)}, {Arg(2)}), Cells({Arg(3)}, {Arg(2)}), 3)]_vars
    /\ [][Drawing(IO_FILL_RECT, 5)
            => LET R == Cells(Arg(5) .. (Arg(5) + Arg(3) - 1), Arg(4) .. (Arg(4) + Arg(2) - 1))
               IN  Drew(R, R, 5)]_vars
    /\ [][Drawing(IO_DRAW_LINE, 5)
            => Drew(Cells({Arg(5)}, {Arg(4)}) \cup Cells({Arg(3)}, {Arg(2)}),
                    Cells(Between(Arg(5), Arg(3)), Between(Arg(4), Arg(2))), 5)]_vars

(* the line from (0, 235) to (5, 250) was drawn: its first end is set,    *)
(* row 239 is reached, and nothing lies beyond it                         *)
C30_Witness ==
    /\ IoDone(IO_DRAW_LINE)
    /\ last.under = 250 /\ last.third = 5
    /\ vm.error = VM_OK
    /\ 235 * VM_DISPLAY_WIDTH \in DOMAIN ctx.pixels
    /\ \E x \in 0 .. 5 : 239 * VM_DISPLAY_WIDTH + x \in DOMAIN ctx.pixels
    /\ \A i \in DOMAIN ctx.pixels : i < 240 * VM_DISPLAY_WIDTH
    /\ Cardinality(DOMAIN ctx.pixels) = 5
(* ------------------------------ C31 ----------------------------------- *)
(* the operand bytes that follow an opcode in the image *)
OperandBytes(op) ==
    IF op \in {OP_PUSH, OP_IO} THEN 1
    ELSE IF op \in {OP_LOAD, OP_STORE, OP_JMP, OP_JZ, OP_JNZ, OP_CALL} THEN 2
    ELSE 0

(* reading the bytes from..to-1 of an image through the opcode table *)
RECURSIVE Disassemble(_, _, _)
Disassemble(out, from, to) ==
    IF from >= to THEN <<>>
    ELSE LET op == OutRead(out, from)
             n == OperandBytes(op)
             operand == CASE n = 0 -> 0
                          [] n = 1 -> OutRead(out, from + 1)
                          [] n = 2 -> OutRead(out, from + 1) + 256 * OutRead(out, from + 2)
         IN  <<[op |-> op, operand |-> operand]>> \o Disassemble(out, from + 1 + n, to)

Listing(p) == [i \in DOMAIN p |-> [op |-> Mnemonics[p[i].mn].op, operand |-> p[i].operand]]

(* C31: each line that is an instruction with a numeric operand fitting   *)
(* its slot, in any letter case, decimal or 0x-hexadecimal, extends the   *)
(* disassembly of the bytes emitted so far by exactly that instruction    *)
(* and operand, so the image of such a program disassembles to it         *)
C31_RoundTrip ==
    [][(aloc = "pass1" /\ aloc' = "pass1" /\ src # <<>>) =>
         \A ins \in NumericInstrs :
            NextLine(src) = Text(ins) =>
               Disassemble(asm'.output, 0, asm'.output_pos)
                 = Append(Disassemble(asm.output, 0, asm.output_pos),
                          [op |-> Mnemonics[ins.mn].op, operand |-> ins.operand])]_vars

C31_Witness ==
    /\ aloc = "exited"
    /\ asm.file.written
    /\ \E p \in NumericPrograms :
          /\ p[3].operand > 0
          /\ Disassemble(asm.file.bytes, 0, asm.file.len) = Listing(p)
(* ------------------------------ C32 ----------------------------------- *)
(* C32: a label operand that begins with an underscore is recorded as a   *)
(* reference when its instruction is read, and after pass two the operand *)
(* of a defined one holds the label's address, low byte first             *)
C32_UnderscoreLabels ==
    \A i \in 1 .. Len(asm.seen_refs) :
        LET r == asm.seen_refs[i]
        IN  r.name[1] = 95 =>
              /\ \E k \in 1 .. Len(asm.label_refs) :
                    /\ asm.label_refs[k].name = r.name
                    /\ asm.label_refs[k].patch_location = r.pos
              /\ (/\ aloc \in {"assembled", "exited"}
                  /\ \E k \in 1 .. Len(asm.seen_defs) : asm.seen_defs[k].name = r.name)
                   => \E k \in 1 .. Len(asm.seen_defs) :
                         /\ asm.seen_defs[k].name = r.name
                         /\ OutRead(asm.output, r.pos) = Lo(asm.seen_defs[k].pos)
                         /\ OutRead(asm.output, r.pos + 1) = Hi(asm.seen_defs[k].pos)
(* ------------------------------ C33 ----------------------------------- *)
(* C33: a line that is an instruction followed by `;` and a comment       *)
(* leaves the output, the cursor and the label table exactly as the same  *)
(* line without the comment does                                          *)
C33_CommentsIgnored ==
    [][(aloc = "pass1" /\ aloc' = "pass1" /\ src # <<>>) =>
         LET line == NextLine(src)
             semi == strchr(line, 59)
             code == SubSeq(line, 1, semi - 1)
         IN  (semi > 1 /\ strchr(code, 58) = 0 /\ trim_whitespace(code) # <<>>) =>
                /\ asm'.output = assemble_line(asm, code).output
                /\ asm'.output_pos = assemble_line(asm, code).output_pos
                /\ asm'.labels = asm.labels]_vars
(* ------------------------------ C34 ----------------------------------- *)
(* the step executes one instruction with opcode op *)
Executes(op) == iter' = "exec" /\ last'.op = op

(* C34: SP is always within 0..0xFFFF; a PUSH faults with STACK_OVERFLOW  *)
(* exactly when SP = 0 and then leaves SP and memory as they were, and    *)
(* otherwise stores its byte at SP and decrements SP; a POP faults with   *)
(* STACK_UNDERFLOW exactly when SP = 0xFFFF and then leaves SP and memory *)
(* as they were, and otherwise increments SP; the byte a faulting pop     *)
(* yields is 0: DUP on the empty stack pushes two zero bytes              *)
C34_PushPopFaults ==
    /\ [](vm.sp \in 0 .. 65535)
    /\ [][/\ Executes(OP_PUSH) =>
               /\ (vm'.error = VM_ERROR_STACK_OVERFLOW) <=> (vm.sp = 0)
               /\ vm.sp = 0 => (vm'.sp = vm.sp /\ vm'.memory = vm.memory)
               /\ vm.sp > 0 =>
                     /\ vm'.sp = vm.sp - 1
                     /\ vm'.memory = MemWrite(vm.memory, vm.sp, last'.arg)
          /\ Executes(OP_POP) =>
               /\ (vm'.error = VM_ERROR_STACK_UNDERFLOW) <=> (vm.sp = 65535)
               /\ vm.sp = 65535 => (vm'.sp = vm.sp /\ vm'.memory = vm.memory)
               /\ vm.sp < 65535 => (vm'.sp = vm.sp + 1 /\ vm'.memory = vm.memory)
          /\ (Executes(OP_DUP) /\ vm.sp = 65535) =>
               /\ vm'.error = VM_ERROR_STACK_UNDERFLOW
               /\ vm'.sp = 65533
               /\ vm'.memory = MemWrite(MemWrite(vm.memory, 65535, 0), 65534, 0)]_vars

C34_Witness ==
    /\ vm.sp = 0
    /\ vm.error = VM_ERROR_STACK_OVERFLOW
    /\ last.op = OP_PUSH
(* ------------------------------ C35 ----------------------------------- *)
Max(a, b) == IF a > b THEN a ELSE b

(* the iterations still needed: the larger of the two distances *)
Remaining(f) == Max(Abs(f.x1 - f.x0), Abs(f.y1 - f.y0))

(* C35: every call of draw_line with end points in 0..255 leaves the      *)
(* loop, and it leaves it at the second end point: each iteration that    *)
(* does not break moves one step closer along the longer axis and stays   *)
(* between the end points, so the loop runs max(dx, dy) + 1 times; the    *)
(* pixels written are those of draw_line as a whole                       *)
C35_LineTerminates ==
    /\ (dl.at = "loop") ~> (dl.at = "done")
    /\ [](dl.at = "done" =>
            /\ dl.x0 = dl.x1 /\ dl.y0 = dl.y1
            /\ dl.steps = Max(dl.dx, dl.dy) + 1
            /\ (Remaining([dl EXCEPT !.x0 = dl.ax, !.y0 = dl.ay]) <= 20 =>
                  ctx.pixels = draw_line(platform_io_init, dl.ax, dl.ay,
                                         dl.x1, dl.y1, dl.color).pixels))
    /\ [][(dl.at = "loop" /\ dl'.at = "loop") =>
            /\ Remaining(dl') = Remaining(dl) - 1
            /\ Abs(dl.x1 - dl'.x0) <= Abs(dl.x1 - dl.x0)
            /\ Abs(dl.y1 - dl'.y0) <= Abs(dl.y1 - dl.y0)]_vars

C35_Witness ==
    /\ dl.at = "done"
    /\ dl.ax = 255 /\ dl.ay = 0
    /\ dl.x0 = 3 /\ dl.y0 = 255
    /\ dl.steps = 256
(* ------------------------------ C36 ----------------------------------- *)
(* C36: after pass two, both positions patched for a recorded reference   *)
(* to a known label are at most 65535, no byte was stored behind the      *)
(* output array and the cursor is the one pass one left                   *)
C36_PatchInsideBuffer ==
    /\ [](aloc \in {"assembled", "exited"} =>
            /\ \A i \in 1 .. Len(asm.label_refs) :
                  find_label(asm, asm.label_refs[i].name) > 0
                    => asm.label_refs[i].patch_location + 1 <= 65535
            /\ \A q \in DOMAIN asm.output : q <= 65535)
    /\ [][aloc = "pass1" /\ aloc' = "assembled" => asm'.output_pos = asm.output_pos]_vars
(* ------------------------------ C38 ----------------------------------- *)
(* C38: the write cursor is the number of bytes emitted so far, a label's *)
(* address is the number of bytes emitted before it, pass one never       *)
(* changes a byte it has emitted, and the length of the written image     *)
(* file is the number of bytes emitted                                    *)
C38_CursorCountsBytes ==
    /\ [](/\ aloc = "pass1" => asm.output_pos = asm.emitted
          /\ \A k \in 1 .. Len(asm.seen_defs) :
                asm.seen_defs[k].pos = asm.seen_defs[k].offset
          /\ (aloc = "exited" /\ asm.file.written) => asm.file.len = asm.emitted)
    /\ [][(aloc = "pass1" /\ aloc' = "pass1") =>
            \A q \in DOMAIN asm.output \cup DOMAIN asm'.output :
                q < asm.emitted => OutRead(asm'.output, q) = OutRead(asm.output, q)]_vars
(* ------------------------------ C39 ----------------------------------- *)
(* C39: every label definition read so far is in the label table and      *)
(* every label operand that starts with a letter is in the reference      *)
(* list, and after pass two each such operand either holds the address    *)
(* of a definition of its label or its label was reported as undefined    *)
C39_NothingDropped ==
    /\ \A i \in 1 .. Len(asm.seen_defs) :
          \E k \in 1 .. Len(asm.labels) :
             /\ asm.labels[k].name = asm.seen_defs[i].name
             /\ asm.labels[k].address = asm.seen_defs[i].pos
    /\ \A i \in 1 .. Len(asm.seen_refs) :
          LET r == asm.seen_refs[i]
          IN  isalpha(r.name[1]) =>
                /\ \E k \in 1 .. Len(asm.label_refs) :
                      /\ asm.label_refs[k].name = r.name
                      /\ asm.label_refs[k].patch_location = r.pos
                /\ aloc \in {"assembled", "exited"} =>
                      \/ \E k \in 1 .. Len(asm.errors) : asm.errors[k] = r.name
                      \/ \E k \in 1 .. Len(asm.seen_defs) :
                            /\ asm.seen_defs[k].name = r.name
                            /\ OutRead(asm.output, r.pos) = Lo(asm.seen_defs[k].pos)
                            /\ OutRead(asm.output, r.pos + 1) = Hi(asm.seen_defs[k].pos)
(* ------------------------------ C37 ----------------------------------- *)
(* C37: whenever the waiting-for-input flag is set, the instruction       *)
(* executed last is a READ_CHAR that found no key, and the loop iteration *)
(* that follows a GET_KEY is never one that skips the fetch               *)
C37_WaitingOnlyWhilePending ==
    /\ [](ctx.waiting_for_input => Pending(last) >= 0)
    /\ [][IoDone(IO_GET_KEY) => iter' # "skip"]_vars
(* ------------------------------ C40 ----------------------------------- *)
(* the output lines that define, and that reference, label l *)
Defines(l) == {i \in 1 .. Len(comp.output) : comp.output[i] = [op |-> "label", label |-> l]}
Refers(l) ==
    {i \in 1 .. Len(comp.output) : comp.output[i].op \in {"JZ", "JMP"} /\ comp.output[i].label = l}

(* C40: every while statement parsed so far emitted, in this order, its   *)
(* own start label, a JZ to its own end label, a JMP to its own start     *)
(* label and its own end label, and each of its two labels is defined     *)
(* exactly once in the output                                             *)
C40_WhileLabels ==
    \A k \in 1 .. Len(comp.loops) :
        LET w == comp.loops[k]
        IN  /\ w.lines[1] < w.lines[2] /\ w.lines[2] < w.lines[3] /\ w.lines[3] < w.lines[4]
            /\ comp.output[w.lines[1]] = [op |-> "label", label |-> w.start]
            /\ comp.output[w.lines[2]] = [op |-> "JZ", label |-> w.end]
            /\ comp.output[w.lines[3]] = [op |-> "JMP", label |-> w.start]
            /\ comp.output[w.lines[4]] = [op |-> "label", label |-> w.end]
            /\ Cardinality(Defines(w.start)) = 1
            /\ Cardinality(Defines(w.end)) = 1

====
